---- MODULE Spec2Model ----
(***************************************************************************)
(* Model of ts.c, the CODAR time series transcoder (tsdump / tsgen).       *)
(*                                                                         *)
(* Representation.  A byte is a number 0..255.  The binary file and every  *)
(* malloc'ed data block are sequences of bytes in address order.  A 2, 4   *)
(* or 8 byte scalar is held as the tuple of its bytes; for node.key and    *)
(* node.size the tuple is the numeric value, most significant byte first,  *)
(* so that the in-place endian_fixup of the C code is a reversal of the    *)
(* tuple on a little endian host and nothing on a big endian host.  A text *)
(* file is a sequence of lines, a line a sequence of character codes.      *)
(***************************************************************************)
EXTENDS Integers, Sequences, FiniteSets, TLC

VARIABLES
    Global_flag_little_endian,  \* 1 on a little endian host, 0 on a big endian one
    program,                    \* "tsdump" or "tsgen": basename(argv[0])
    pc,                         \* position of the run
    infile,                     \* the input file: bytes (tsdump) or lines (tsgen)
    just_header,                \* tsdump -h
    filedata,                   \* tsdump: the buffer the file was read into
    list,                       \* the linked list of nodes, first real node first
    config,                     \* struct config: the fields that are used
    fpos,                       \* tsgen: position of infile, in lines read by fgets
    line_count,                 \* tsgen: lines read by the main loop
    outfile,                    \* what has been written to the output file
    status,                     \* results of the passes of this run
    ret                         \* what tsdump()/tsgen() returned

vars == <<Global_flag_little_endian, program, pc, infile, just_header, filedata,
          list, config, fpos, line_count, outfile, status, ret>>

----------------------------------------------------------------------------
(* Bytes, words and byte order                                             *)

Rev(s) == [i \in 1..Len(s) |-> s[Len(s) + 1 - i]]

Zeros(n) == [i \in 1..n |-> 0]

\* The value of a 4 byte tuple read most significant byte first.
ToNat(v) == ((v[1] * 256 + v[2]) * 256 + v[3]) * 256 + v[4]

\* The 4 byte tuple, most significant byte first, of a number below 2^31.
FromNat(n) == << (n \div 16777216) % 256, (n \div 65536) % 256, (n \div 256) % 256, n % 256 >>

\* endian_fixup: reverses the bytes of a 2, 4 or 8 byte object on a little
\* endian host and leaves it alone on a big endian host.
swapcopy(source) ==
    IF Len(source) \in {2, 4, 8} THEN Rev(source) ELSE source

endian_fixup(original) ==
    IF Global_flag_little_endian = 1 THEN swapcopy(original) ELSE original

\* The bytes in memory of a scalar whose numeric tuple is v, and back: the
\* host stores the least significant byte first when it is little endian.
Mem(v) == IF Global_flag_little_endian = 1 THEN Rev(v) ELSE v

----------------------------------------------------------------------------
(* Block keys.  A fourcc is written as the tuple of its bytes, most        *)
(* significant first: 0x4151564c is <<65, 81, 86, 76>>.                    *)

KEY_AQLV == <<65, 81, 86, 76>>
KEY_HEAD == <<72, 69, 65, 68>>
KEY_sign == <<115, 105, 103, 110>>
KEY_mcda == <<109, 99, 100, 97>>
KEY_cnst == <<99, 110, 115, 116>>
KEY_swep == <<115, 119, 101, 112>>
KEY_fbin == <<102, 98, 105, 110>>
KEY_BODY == <<66, 79, 68, 89>>
KEY_gtag == <<103, 116, 97, 103>>
KEY_atag == <<97, 116, 97, 103>>
KEY_indx == <<105, 110, 100, 120>>
KEY_scal == <<115, 99, 97, 108>>
KEY_alvl == <<97, 108, 118, 108>>
KEY_END  == <<69, 78, 68, 32>>

BINFORMAT_CVIQ == <<99, 118, 105, 113>>
BINTYPE_FLT4 == <<102, 108, 116, 52>>
BINTYPE_FIX2 == <<102, 105, 120, 50>>
BINTYPE_FIX3 == <<102, 105, 120, 51>>
BINTYPE_FIX4 == <<102, 105, 120, 52>>

SIZE_DESCRIPTION == 64
SIZE_OWNERNAME == 64
SIZE_COMMENT == 64
SIZE_LINE == 80

\* sizeof(struct block_header): key and size, packed.
SizeofHeader == 8

\* Global_function_dictionary: the keys that have an entry.
Global_function_dictionary ==
    << KEY_alvl, KEY_gtag, KEY_atag, KEY_indx, KEY_scal, KEY_sign, KEY_mcda,
       KEY_cnst, KEY_swep, KEY_fbin, KEY_AQLV, KEY_HEAD, KEY_BODY, KEY_END >>

\* find_block_functions that finds an entry for every key but zero.
find_block_functions_nonzero(key) ==
    IF key = Zeros(4) THEN <<>> ELSE key

\* find_block_functions: the key of the entry found, or <<>> for NULL.
find_block_functions(key) ==
    IF key = Zeros(4) THEN <<>>
    ELSE IF \E i \in 1..Len(Global_function_dictionary) : Global_function_dictionary[i] = key
         THEN key
         ELSE <<>>

\* superblock without the test for KEY_BODY.
superblock_without_body(key) == key \in {KEY_AQLV, KEY_HEAD, KEY_END}

superblock(key) == key \in {KEY_AQLV, KEY_HEAD, KEY_BODY, KEY_END}

----------------------------------------------------------------------------
(* The data portion of each block type (the packed structs)                *)

Sizeof_block_sign == 208
Sizeof_block_mcda == 4
Sizeof_block_cnst == 16
Sizeof_block_swep == 32
Sizeof_block_fbin == 8
Sizeof_block_gtag == 4
Sizeof_block_atag == 4
Sizeof_block_indx == 4
Sizeof_block_scal == 16
Sizeof_block_alvl == 4

\* A node of the list.  key and size are numeric tuples, data the bytes of
\* the data block (<<>> when the pointer is NULL or the block is empty).
Node(key, size, data) == [key |-> key, size |-> size, data |-> data]

Size(node) == ToNat(node.size)

\* Applies endian_fixup to consecutive fields of the given widths at the
\* start of data; the bytes after the last field are left alone.
RECURSIVE FixupFields(_, _)
FixupFields(data, widths) ==
    IF widths = <<>> THEN data
    ELSE LET w == Head(widths)
         IN  endian_fixup(SubSeq(data, 1, w))
                \o FixupFields(SubSeq(data, w + 1, Len(data)), Tail(widths))

\* The fixup functions return [err, data]: the return value and the data
\* block after the in-place fixup.
fixup_data_aqlv(size, data) == [err |-> 0, data |-> data]
fixup_data_head(size, data) == [err |-> 0, data |-> data]
fixup_data_body(size, data) == [err |-> 0, data |-> data]
fixup_data_end(size, data) == [err |-> 0, data |-> data]

fixup_data_sign(size, data) ==
    IF size < Sizeof_block_sign THEN [err |-> 1, data |-> data]
    ELSE [err |-> 0, data |-> FixupFields(data, <<4, 4, 4, 4>>)]

fixup_data_mcda(size, data) ==
    IF size < Sizeof_block_mcda THEN [err |-> 1, data |-> data]
    ELSE [err |-> 0, data |-> FixupFields(data, <<4>>)]

fixup_data_cnst(size, data) ==
    IF size < Sizeof_block_cnst THEN [err |-> 1, data |-> data]
    ELSE [err |-> 0, data |-> FixupFields(data, <<4, 4, 4, 4>>)]

fixup_data_swep(size, data) ==
    IF size < Sizeof_block_swep THEN [err |-> 1, data |-> data]
    ELSE [err |-> 0, data |-> FixupFields(data, <<4, 8, 8, 8, 4>>)]

fixup_data_fbin(size, data) ==
    IF size < Sizeof_block_fbin THEN [err |-> 1, data |-> data]
    ELSE [err |-> 0, data |-> FixupFields(data, <<4, 4>>)]

fixup_data_gtag(size, data) ==
    IF size < Sizeof_block_gtag THEN [err |-> 1, data |-> data]
    ELSE [err |-> 0, data |-> FixupFields(data, <<4>>)]

fixup_data_atag(size, data) ==
    IF size < Sizeof_block_atag THEN [err |-> 1, data |-> data]
    ELSE [err |-> 0, data |-> FixupFields(data, <<4>>)]

fixup_data_indx(size, data) ==
    IF size < Sizeof_block_indx THEN [err |-> 1, data |-> data]
    ELSE [err |-> 0, data |-> FixupFields(data, <<4>>)]

fixup_data_scal(size, data) ==
    IF size < Sizeof_block_scal THEN [err |-> 1, data |-> data]
    ELSE [err |-> 0, data |-> FixupFields(data, <<8, 8>>)]

\* endian_fixup of the isample and the qsample of the first nsamples
\* samples: on a little endian host the two bytes of each 16 bit value
\* change places.
FixupSamples(data, nsamples) ==
    [i \in 1..Len(data) |->
        IF i <= nsamples * Sizeof_block_alvl /\ Global_flag_little_endian = 1
        THEN (IF i % 2 = 1 THEN data[i + 1] ELSE data[i - 1])
        ELSE data[i]]

fixup_data_alvl(size, data) ==
    IF size < Sizeof_block_alvl THEN [err |-> 1, data |-> data]
    ELSE [err |-> 0, data |-> FixupSamples(data, size \div Sizeof_block_alvl)]

\* fixup_data: looks the key up and calls its fixup function.
fixup_data(key, size, data) ==
    LET block_functions == find_block_functions(key)
    IN  IF block_functions = <<>> THEN [err |-> 1, data |-> data]
        ELSE IF key = KEY_alvl THEN fixup_data_alvl(size, data)
        ELSE IF key = KEY_gtag THEN fixup_data_gtag(size, data)
        ELSE IF key = KEY_atag THEN fixup_data_atag(size, data)
        ELSE IF key = KEY_indx THEN fixup_data_indx(size, data)
        ELSE IF key = KEY_scal THEN fixup_data_scal(size, data)
        ELSE IF key = KEY_sign THEN fixup_data_sign(size, data)
        ELSE IF key = KEY_mcda THEN fixup_data_mcda(size, data)
        ELSE IF key = KEY_cnst THEN fixup_data_cnst(size, data)
        ELSE IF key = KEY_swep THEN fixup_data_swep(size, data)
        ELSE IF key = KEY_fbin THEN fixup_data_fbin(size, data)
        ELSE IF key = KEY_AQLV THEN fixup_data_aqlv(size, data)
        ELSE IF key = KEY_HEAD THEN fixup_data_head(size, data)
        ELSE IF key = KEY_BODY THEN fixup_data_body(size, data)
        ELSE fixup_data_end(size, data)

\* The bytes of the data block that fixup_data reads and writes: none for
\* a key without functions or a size below that of the struct, else the
\* scalar fields of the struct, or every whole sample.
fixup_extent(key, size) ==
    IF find_block_functions(key) = <<>> THEN 0
    ELSE IF key = KEY_alvl
         THEN (IF size < Sizeof_block_alvl THEN 0
               ELSE (size \div Sizeof_block_alvl) * Sizeof_block_alvl)
    ELSE IF key = KEY_sign THEN (IF size < Sizeof_block_sign THEN 0 ELSE 16)
    ELSE IF key = KEY_mcda THEN (IF size < Sizeof_block_mcda THEN 0 ELSE Sizeof_block_mcda)
    ELSE IF key = KEY_cnst THEN (IF size < Sizeof_block_cnst THEN 0 ELSE Sizeof_block_cnst)
    ELSE IF key = KEY_swep THEN (IF size < Sizeof_block_swep THEN 0 ELSE Sizeof_block_swep)
    ELSE IF key = KEY_fbin THEN (IF size < Sizeof_block_fbin THEN 0 ELSE Sizeof_block_fbin)
    ELSE IF key = KEY_gtag THEN (IF size < Sizeof_block_gtag THEN 0 ELSE Sizeof_block_gtag)
    ELSE IF key = KEY_atag THEN (IF size < Sizeof_block_atag THEN 0 ELSE Sizeof_block_atag)
    ELSE IF key = KEY_indx THEN (IF size < Sizeof_block_indx THEN 0 ELSE Sizeof_block_indx)
    ELSE IF key = KEY_scal THEN (IF size < Sizeof_block_scal THEN 0 ELSE Sizeof_block_scal)
    ELSE 0

----------------------------------------------------------------------------
(* The binary decoder                                                      *)

\* The state of a parse: the buffer (headers and data are fixed up in
\* place), the nodes linked so far (off is where node.data points, counted
\* from the start of the buffer; declared is header->size as it was read and
\* remaining is length after the header was taken off, the two numbers the
\* "truncted" message prints), the error return, and what went wrong
\* with the memory: outside when bytes at or beyond the end of the buffer
\* were touched, wrapped when the unsigned counter length was taken below
\* zero, ub when the behaviour is undefined from there on.
ParseStart(buffer) ==
    [buf |-> buffer, nodes |-> <<>>, err |-> 0, ub |-> FALSE, outside |-> FALSE,
     wrapped |-> FALSE, clamped |-> {}]

Splice(buf, off, bytes) ==
    SubSeq(buf, 1, off) \o bytes \o SubSeq(buf, off + Len(bytes) + 1, Len(buf))

\* The size a node gets: header->size, or what is left of the range when
\* the header declares more ("size truncted").  header_size_kept is the
\* same without the comparison.
header_size_kept(declared, length) == declared

clamp_size(declared, length) ==
    IF length >= 0 /\ declared > length THEN length ELSE declared

\* parse_block(root, buffer, length): off is buffer counted from the start of
\* the file buffer.  length is the C unsigned long; a value below zero here
\* stands for the wrapped value 2^64 + length, which is not zero and is
\* larger than every 32 bit size.
RECURSIVE parse_block(_, _, _)
parse_block(st, off, length) ==
    IF length = 0 THEN st
    ELSE IF off + SizeofHeader > Len(st.buf)
         THEN [st EXCEPT !.ub = TRUE, !.outside = TRUE, !.wrapped = @ \/ length < SizeofHeader]
    ELSE
      LET key == SubSeq(st.buf, off + 1, off + 4)
          declared == ToNat(SubSeq(st.buf, off + 5, off + 8))
          buf1 == Splice(st.buf, off, endian_fixup(key)
                                      \o endian_fixup(SubSeq(st.buf, off + 5, off + 8)))
          length1 == length - SizeofHeader
          data == off + SizeofHeader
          truncated == length1 >= 0 /\ declared > length1
          size == clamp_size(declared, length1)
          newnode == [key |-> key, size |-> FromNat(size), off |-> data,
                      declared |-> declared, remaining |-> length1]
          st1 == [st EXCEPT !.buf = buf1,
                            !.nodes = Append(@, newnode),
                            !.wrapped = @ \/ length1 < 0,
                            !.clamped = IF truncated THEN @ \cup {Len(st.nodes) + 1} ELSE @]
          inside == IF data + size > Len(buf1) THEN Len(buf1) - data ELSE size
          st2 == IF superblock(key)
                 THEN parse_block(st1, data, size)
                 ELSE IF data + fixup_extent(key, size) > Len(buf1)
                      THEN [st1 EXCEPT !.ub = TRUE, !.outside = TRUE]
                      ELSE LET fix == fixup_data(key, size, SubSeq(buf1, data + 1, data + inside))
                           IN  [st1 EXCEPT !.buf = Splice(buf1, data, fix.data),
                                           !.err = fix.err]
      IN  IF st2.ub \/ st2.err = 1 THEN st2
          ELSE parse_block(st2, data + size, length1 - size)

\* The list a finished parse hands over: every node with the bytes its data
\* pointer points at.
NodesOf(st) ==
    [i \in 1..Len(st.nodes) |->
        Node(st.nodes[i].key, st.nodes[i].size,
             SubSeq(st.buf, st.nodes[i].off + 1, st.nodes[i].off + ToNat(st.nodes[i].size)))]

\* parse_file: dummy_root is not initialised, so with length 0 the pointer
\* returned was never written (ub).  list is <<>> for NULL.
parse_file(buffer, length) ==
    LET st == parse_block(ParseStart(buffer), 0, length)
    IN  IF st.ub THEN [st |-> st, null |-> FALSE, list |-> <<>>]
        ELSE IF st.err = 1 THEN [st |-> st, null |-> TRUE, list |-> <<>>]
        ELSE IF length = 0 THEN [st |-> [st EXCEPT !.ub = TRUE], null |-> FALSE, list |-> <<>>]
        ELSE [st |-> st, null |-> FALSE, list |-> NodesOf(st)]

check_header(buffer) ==
    IF SubSeq(buffer, 1, 4) # KEY_AQLV THEN 1 ELSE 0

\* read_binary_file: count is what fread returned.
read_binary_file(count, filesize, buffer) ==
    IF count # filesize THEN 1
    ELSE IF count > SizeofHeader /\ check_header(buffer) = 1 THEN 1
    ELSE 0


----------------------------------------------------------------------------
(* The size reconciler.  tsgen passes &root, a node with key 0 and size 0  *)
(* in front of the list: with key 0 it sets no flag, is counted in no      *)
(* region and is matched by no set_block_size, so the scans below run over *)
(* the real nodes only.  The sums are uint32_t; the lists of this model    *)
(* stay far below 2^32 bytes.                                              *)

\* calculate_body_size that sets the flag before it counts, so that the
\* body-open marker is counted as well.
RECURSIVE body_scan_with_marker(_, _, _, _)
body_scan_with_marker(nodes, i, in_body, size) ==
    IF i > Len(nodes) THEN size
    ELSE LET in1 == IF nodes[i].key = KEY_END THEN 0 ELSE in_body
             in2 == IF nodes[i].key = KEY_BODY THEN 1 ELSE in1
             size1 == IF in2 = 1 THEN size + (Size(nodes[i]) + SizeofHeader) ELSE size
         IN  body_scan_with_marker(nodes, i + 1, in2, size1)

calculate_body_size_with_marker(nodes) == body_scan_with_marker(nodes, 1, 0, 0)

RECURSIVE body_scan(_, _, _, _)
body_scan(nodes, i, in_body, size) ==
    IF i > Len(nodes) THEN size
    ELSE LET in1 == IF nodes[i].key = KEY_END THEN 0 ELSE in_body
             size1 == IF in1 = 1 THEN size + (Size(nodes[i]) + SizeofHeader) ELSE size
             in2 == IF nodes[i].key = KEY_BODY THEN 1 ELSE in1
         IN  body_scan(nodes, i + 1, in2, size1)

calculate_body_size(nodes) == body_scan(nodes, 1, 0, 0)

\* calculate_head_size without the test for KEY_BODY.
RECURSIVE head_scan_past_body(_, _, _, _)
head_scan_past_body(nodes, i, in_head, size) ==
    IF i > Len(nodes) THEN size
    ELSE LET in1 == IF nodes[i].key = KEY_END THEN 0 ELSE in_head
             size1 == IF in1 = 1 THEN size + (Size(nodes[i]) + SizeofHeader) ELSE size
             in3 == IF nodes[i].key = KEY_HEAD THEN 1 ELSE in1
         IN  head_scan_past_body(nodes, i + 1, in3, size1)

calculate_head_size_past_body(nodes) == head_scan_past_body(nodes, 1, 0, 0)

RECURSIVE head_scan(_, _, _, _)
head_scan(nodes, i, in_head, size) ==
    IF i > Len(nodes) THEN size
    ELSE LET in1 == IF nodes[i].key = KEY_END THEN 0 ELSE in_head
             in2 == IF nodes[i].key = KEY_BODY THEN 0 ELSE in1
             size1 == IF in2 = 1 THEN size + (Size(nodes[i]) + SizeofHeader) ELSE size
             in3 == IF nodes[i].key = KEY_HEAD THEN 1 ELSE in2
         IN  head_scan(nodes, i + 1, in3, size1)

calculate_head_size(nodes) == head_scan(nodes, 1, 0, 0)

\* set_block_size that reports success when no node has the key.
set_block_size_found_or_not(nodes, key, size) ==
    IF \E i \in 1..Len(nodes) : nodes[i].key = key
    THEN LET first == CHOOSE i \in 1..Len(nodes) :
                         /\ nodes[i].key = key
                         /\ \A j \in 1..(i - 1) : nodes[j].key # key
         IN  [err |-> 0, list |-> [nodes EXCEPT ![first].size = FromNat(size)]]
    ELSE [err |-> 0, list |-> nodes]

\* set_block_size that goes on after the first node with the key.
set_block_size_every(nodes, key, size) ==
    IF \E i \in 1..Len(nodes) : nodes[i].key = key
    THEN [err |-> 0,
          list |-> [i \in 1..Len(nodes) |->
                      IF nodes[i].key = key
                      THEN [nodes[i] EXCEPT !.size = FromNat(size)]
                      ELSE nodes[i]]]
    ELSE [err |-> 1, list |-> nodes]

\* set_block_size: [err, list]; the first node with the key gets the size.
set_block_size(nodes, key, size) ==
    IF \E i \in 1..Len(nodes) : nodes[i].key = key
    THEN LET first == CHOOSE i \in 1..Len(nodes) :
                         /\ nodes[i].key = key
                         /\ \A j \in 1..(i - 1) : nodes[j].key # key
         IN  [err |-> 0, list |-> [nodes EXCEPT ![first].size = FromNat(size)]]
    ELSE [err |-> 1, list |-> nodes]

\* fixup_sizes that sets the sizes of HEAD and BODY before that of AQLV.
fixup_sizes_inner_first(nodes) ==
    LET head_size == calculate_head_size(nodes)
        body_size == calculate_body_size(nodes)
        aqlv_size == head_size + SizeofHeader + body_size + SizeofHeader
        h == set_block_size(nodes, KEY_HEAD, head_size)
        b == set_block_size(h.list, KEY_BODY, body_size)
        a == set_block_size(b.list, KEY_AQLV, aqlv_size)
    IN  IF head_size = 0 THEN [err |-> 1, list |-> nodes]
        ELSE IF body_size = 0 THEN [err |-> 1, list |-> nodes]
        ELSE IF h.err = 1 THEN [err |-> 1, list |-> h.list]
        ELSE IF b.err = 1 THEN [err |-> 1, list |-> b.list]
        ELSE IF a.err = 1 THEN [err |-> 1, list |-> a.list]
        ELSE [err |-> 0, list |-> a.list]

\* fixup_sizes: [err, list].
fixup_sizes(nodes) ==
    LET head_size == calculate_head_size(nodes)
        body_size == calculate_body_size(nodes)
        aqlv_size == head_size + SizeofHeader + body_size + SizeofHeader
        a == set_block_size(nodes, KEY_AQLV, aqlv_size)
        h == set_block_size(a.list, KEY_HEAD, head_size)
        b == set_block_size(h.list, KEY_BODY, body_size)
    IN  IF head_size = 0 THEN [err |-> 1, list |-> nodes]
        ELSE IF body_size = 0 THEN [err |-> 1, list |-> nodes]
        ELSE IF a.err = 1 THEN [err |-> 1, list |-> a.list]
        ELSE IF h.err = 1 THEN [err |-> 1, list |-> h.list]
        ELSE IF b.err = 1 THEN [err |-> 1, list |-> b.list]
        ELSE [err |-> 0, list |-> b.list]

----------------------------------------------------------------------------
(* The binary serializer.  A gen function fixes key, size and the data     *)
(* fields up in place, in the node, and writes what is then in memory.     *)
(* It returns [err, node, out]: the node as it is left and the bytes       *)
(* written.  Writes to the output file succeed.                            *)

\* The header as every gen function writes it.
GenHeader(node) == Mem(endian_fixup(node.key)) \o Mem(endian_fixup(node.size))

GenNode(node, data) ==
    [key |-> endian_fixup(node.key), size |-> endian_fixup(node.size), data |-> data]

\* A block without data: only the header is written.
gen_block_aqlv(node) == [err |-> 0, node |-> GenNode(node, node.data), out |-> GenHeader(node)]
gen_block_head(node) == [err |-> 0, node |-> GenNode(node, node.data), out |-> GenHeader(node)]
gen_block_body(node) == [err |-> 0, node |-> GenNode(node, node.data), out |-> GenHeader(node)]
gen_block_end(node) == [err |-> 0, node |-> GenNode(node, node.data), out |-> GenHeader(node)]

\* A block of fixed layout: every field of the struct is fixed up and
\* written, sizeof(struct) bytes in all, whatever node.size says.
GenFields(node, widths, total) ==
    LET data == FixupFields(node.data, widths)
    IN  [err |-> 0, node |-> GenNode(node, data),
         out |-> GenHeader(node) \o SubSeq(data, 1, total)]

\* gen_block_sign: the calls of endian_fixup on the four scalar fields are
\* commented out; the struct is written as it stands in memory.
gen_block_sign(node) ==
    [err |-> 0, node |-> GenNode(node, node.data),
     out |-> GenHeader(node) \o SubSeq(node.data, 1, Sizeof_block_sign)]

gen_block_mcda(node) == GenFields(node, <<4>>, Sizeof_block_mcda)
gen_block_cnst(node) == GenFields(node, <<4, 4, 4, 4>>, Sizeof_block_cnst)
gen_block_swep(node) == GenFields(node, <<4, 8, 8, 8, 4>>, Sizeof_block_swep)
gen_block_fbin(node) == GenFields(node, <<4, 4>>, Sizeof_block_fbin)
gen_block_gtag(node) == GenFields(node, <<4>>, Sizeof_block_gtag)
gen_block_atag(node) == GenFields(node, <<4>>, Sizeof_block_atag)
gen_block_indx(node) == GenFields(node, <<4>>, Sizeof_block_indx)
gen_block_scal(node) == GenFields(node, <<8, 8>>, Sizeof_block_scal)

\* gen_block_alvl: sample_count is taken from the size before its fixup;
\* the whole samples are fixed up and written.
gen_block_alvl(node) ==
    LET actual_size == Size(node)
        sample_count == actual_size \div Sizeof_block_alvl
        data == FixupSamples(node.data, sample_count)
    IN  [err |-> 0, node |-> GenNode(node, data),
         out |-> GenHeader(node) \o SubSeq(data, 1, sample_count * Sizeof_block_alvl)]

gen_block(node) ==
    IF node.key = KEY_alvl THEN gen_block_alvl(node)
    ELSE IF node.key = KEY_gtag THEN gen_block_gtag(node)
    ELSE IF node.key = KEY_atag THEN gen_block_atag(node)
    ELSE IF node.key = KEY_indx THEN gen_block_indx(node)
    ELSE IF node.key = KEY_scal THEN gen_block_scal(node)
    ELSE IF node.key = KEY_sign THEN gen_block_sign(node)
    ELSE IF node.key = KEY_mcda THEN gen_block_mcda(node)
    ELSE IF node.key = KEY_cnst THEN gen_block_cnst(node)
    ELSE IF node.key = KEY_swep THEN gen_block_swep(node)
    ELSE IF node.key = KEY_fbin THEN gen_block_fbin(node)
    ELSE IF node.key = KEY_AQLV THEN gen_block_aqlv(node)
    ELSE IF node.key = KEY_HEAD THEN gen_block_head(node)
    ELSE IF node.key = KEY_BODY THEN gen_block_body(node)
    ELSE gen_block_end(node)

\* ts_write from node i on: [err, list, out].
RECURSIVE ts_write_from(_, _, _)
ts_write_from(nodes, i, out) ==
    IF i > Len(nodes) THEN [err |-> 0, list |-> nodes, out |-> out]
    ELSE IF find_block_functions(nodes[i].key) = <<>>
         THEN [err |-> 1, list |-> nodes, out |-> out]
         ELSE LET g == gen_block(nodes[i])
              IN  IF g.err = 1
                  THEN [err |-> 1, list |-> [nodes EXCEPT ![i] = g.node], out |-> out \o g.out]
                  ELSE ts_write_from([nodes EXCEPT ![i] = g.node], i + 1, out \o g.out)

ts_write(nodes) == ts_write_from(nodes, 1, <<>>)



----------------------------------------------------------------------------
(* Numbers as printf and sscanf see them.  A value wider than TLC's        *)
(* integers is kept as its tuple of bytes, most significant first, and the *)
(* arithmetic is done byte by byte, modulo 256^Len.                        *)

IsZero(v) == \A i \in 1..Len(v) : v[i] = 0

SetMin(S) == CHOOSE x \in S : \A y \in S : x <= y

\* v divided by ten: quotient and remainder.
Div10(v) ==
    LET r[i \in 0..Len(v)] == IF i = 0 THEN 0 ELSE (r[i - 1] * 256 + v[i]) % 10
    IN  [q |-> [i \in 1..Len(v) |-> (r[i - 1] * 256 + v[i]) \div 10], r |-> r[Len(v)]]

\* v * 10 + digit.
Mul10Add(v, digit) ==
    LET n == Len(v)
        c[i \in 1..(n + 1)] == IF i = n + 1 THEN digit ELSE (v[i] * 10 + c[i + 1]) \div 256
    IN  [i \in 1..n |-> (v[i] * 10 + c[i + 1]) % 256]

\* v * 16 + digit.
Mul16Add(v, digit) ==
    LET n == Len(v)
        c[i \in 1..(n + 1)] == IF i = n + 1 THEN digit ELSE (v[i] * 16 + c[i + 1]) \div 256
    IN  [i \in 1..n |-> (v[i] * 16 + c[i + 1]) % 256]

\* a + b and a - b, for tuples of one length.
BytesAdd(a, b) ==
    LET n == Len(a)
        c[i \in 1..(n + 1)] == IF i = n + 1 THEN 0 ELSE (a[i] + b[i] + c[i + 1]) \div 256
    IN  [i \in 1..n |-> (a[i] + b[i] + c[i + 1]) % 256]

BytesNeg(a) == BytesAdd([i \in 1..Len(a) |-> 255 - a[i]], [i \in 1..Len(a) |-> IF i = Len(a) THEN 1 ELSE 0])

BytesSub(a, b) == BytesAdd(a, BytesNeg(b))

RECURSIVE DecDigits(_)
DecDigits(v) ==
    IF IsZero(v) THEN <<>>
    ELSE LET d == Div10(v) IN DecDigits(d.q) \o <<48 + d.r>>

\* printf %u and %lu, %d, %x of a value.
FmtU(v) == IF IsZero(v) THEN <<48>> ELSE DecDigits(v)

FmtD(v) == IF v[1] >= 128 THEN <<45>> \o DecDigits(BytesNeg(v)) ELSE FmtU(v)

HexDigit(d) == IF d < 10 THEN 48 + d ELSE 87 + d

FmtX(v) ==
    LET nib == [i \in 1..(2 * Len(v)) |->
                   IF i % 2 = 1 THEN v[(i + 1) \div 2] \div 16 ELSE v[i \div 2] % 16]
        nz == {i \in 1..Len(nib) : nib[i] # 0}
    IN  IF nz = {} THEN <<48>>
        ELSE [i \in 1..(Len(nib) - SetMin(nz) + 1) |-> HexDigit(nib[i + SetMin(nz) - 1])]

\* The bytes of a C string: what comes before the first NUL.
CStr(bytes) ==
    LET z == {i \in 1..Len(bytes) : bytes[i] = 0}
    IN  IF z = {} THEN bytes ELSE SubSeq(bytes, 1, SetMin(z) - 1)

\* strkey(name): the four bytes of the fourcc, most significant first,
\* as a C string (so it ends before a zero byte).
strkey(name) == CStr(name)

----------------------------------------------------------------------------
(* Doubles.  A double is held in memory as its 8 bytes.  The doubles of    *)
(* this model are those of DoubleTable; the value of each is an exact      *)
(* fraction s * n / d, and the arithmetic done on them here (the products  *)
(* and quotients of dump_block_alvl and read_alvl_samples) is carried out  *)
(* on the fractions.  The inputs are chosen so that every intermediate     *)
(* value is a double, where IEEE arithmetic is exact as well.              *)

Rat(s, n, d) == [s |-> s, n |-> n, d |-> d]

RECURSIVE GCD(_, _)
GCD(a, b) == IF b = 0 THEN a ELSE GCD(b, a % b)

Reduce(r) ==
    IF r.n = 0 THEN Rat(1, 0, 1)
    ELSE LET g == GCD(r.n, r.d) IN Rat(r.s, r.n \div g, r.d \div g)

\* bits: the IEEE 754 pattern, most significant byte first.
DoubleTable ==
    << [bits |-> <<0, 0, 0, 0, 0, 0, 0, 0>>,    val |-> Rat(1, 0, 1)],
       [bits |-> <<63, 224, 0, 0, 0, 0, 0, 0>>, val |-> Rat(1, 1, 2)],
       [bits |-> <<63, 240, 0, 0, 0, 0, 0, 0>>, val |-> Rat(1, 1, 1)],
       [bits |-> <<64, 0, 0, 0, 0, 0, 0, 0>>,   val |-> Rat(1, 2, 1)] >>

IsDouble(bits) == \E k \in 1..Len(DoubleTable) : DoubleTable[k].bits = bits

DoubleValue(bits) ==
    DoubleTable[CHOOSE k \in 1..Len(DoubleTable) : DoubleTable[k].bits = bits].val

HasBits(r) == \E k \in 1..Len(DoubleTable) : DoubleTable[k].val = Reduce(r)

DoubleBits(r) ==
    DoubleTable[CHOOSE k \in 1..Len(DoubleTable) : DoubleTable[k].val = Reduce(r)].bits

RECURSIVE FracDigits(_, _, _)
FracDigits(r, d, k) ==
    IF k = 0 THEN <<>>
    ELSE <<48 + ((r * 10) \div d)>> \o FracDigits((r * 10) % d, d, k - 1)

\* printf %.20lf.  The fractions of this model have no digit after the
\* twentieth, so nothing is rounded.
Fmt20(r) ==
    (IF r.s = -1 THEN <<45>> ELSE <<>>)
        \o FmtU(FromNat(r.n \div r.d)) \o <<46>> \o FracDigits(r.n % r.d, r.d, 20)


----------------------------------------------------------------------------
(* The text renderer.  A dump function returns [err, config, out]: its     *)
(* return value, the config as it leaves it, and the lines it printed      *)
(* (every fprintf of the code ends its line).                              *)

\* memset(&config, 0, sizeof(struct config)): the fields the code reads.
ConfigZero ==
    [bin_type |-> Zeros(4), scalar_one |-> Zeros(8), scalar_two |-> Zeros(8)]

\* The numeric tuple of the scalar of width w at offset off of a data block.
Field(data, off, w) == Mem(SubSeq(data, off + 1, off + w))

\* The data block with the scalar at offset off set to the numeric tuple v.
SetField(data, off, v) == Splice(data, off, Mem(v))

\* printf %.*s with precision n of the char array at offset off.
FmtChars(data, off, n) == CStr(SubSeq(data, off + 1, off + n))

\* The offset between the 1904 and the 1970 epoch, 2082844800 seconds.
EpochOffset == FromNat(2082844800)

\* ctime(&t) gives 24 characters before its newline.  The text depends on t
\* and on the time zone; the builder never reads it.  Its shape is kept:
\* "Thu Jan  1 00:00:00 1970".
ctime(t) == <<84, 104, 117, 32, 74, 97, 110, 32, 32, 49, 32, 48, 48, 58, 48, 48, 58, 48, 48, 32, 49, 57, 55, 48>>

dump_block_aqlv(node, cfg) ==
    [err |-> 0, config |-> cfg, out |-> << strkey(KEY_AQLV), <<>> >>]

dump_block_head(node, cfg) ==
    [err |-> 0, config |-> cfg, out |-> << strkey(KEY_HEAD), <<>> >>]

dump_block_body(node, cfg) ==
    [err |-> 0, config |-> cfg, out |-> << strkey(KEY_BODY), <<>> >>]

\* dump_block_end prints the key line and no blank line after it.
dump_block_end(node, cfg) ==
    [err |-> 0, config |-> cfg, out |-> << strkey(KEY_END) >>]

dump_block_sign(node, cfg) ==
    IF Size(node) < Sizeof_block_sign THEN [err |-> 1, config |-> cfg, out |-> <<>>]
    ELSE [err |-> 0, config |-> cfg,
          out |-> << strkey(KEY_sign),
                     <<118, 101, 114, 115, 105, 111, 110, 58>> \o strkey(Field(node.data, 0, 4)),
                     <<102, 105, 108, 101, 116, 121, 112, 101, 58>> \o strkey(Field(node.data, 4, 4)),
                     <<115, 105, 116, 101, 99, 111, 100, 101, 58>> \o strkey(Field(node.data, 8, 4)),
                     <<117, 115, 101, 114, 102, 108, 97, 103, 115, 58>> \o FmtX(Field(node.data, 12, 4)),
                     <<100, 101, 115, 99, 114, 105, 112, 116, 105, 111, 110, 58>> \o FmtChars(node.data, 16, SIZE_DESCRIPTION),
                     <<111, 119, 110, 101, 114, 110, 97, 109, 101, 58>> \o FmtChars(node.data, 80, SIZE_OWNERNAME),
                     <<99, 111, 109, 109, 101, 110, 116, 58>> \o FmtChars(node.data, 144, SIZE_OWNERNAME),
                     <<>> >>]

\* time_t is 64 bits wide: the uint32_t timestamp is widened, the offset is
\* subtracted and the result is printed with %lu.
dump_block_mcda(node, cfg) ==
    IF Size(node) < Sizeof_block_mcda THEN [err |-> 1, config |-> cfg, out |-> <<>>]
    ELSE LET mcda_time == Field(node.data, 0, 4)
             t == BytesSub(Zeros(4) \o mcda_time, Zeros(4) \o EpochOffset)
         IN  [err |-> 0, config |-> cfg,
              out |-> << strkey(KEY_mcda) >>
                      \o (IF IsZero(mcda_time) THEN <<>>
                          ELSE << <<116, 105, 109, 101, 115, 116, 97, 109, 112, 58>> \o FmtU(t)
                                  \o <<32, 40, 78, 66, 58, 32, 115, 101, 99, 111, 110, 100, 115, 32, 115, 105, 110, 99, 101, 32, 49, 57, 55, 48, 41, 32, 40>> \o ctime(t) \o <<41>> >>)
                      \o << <<>> >>]

dump_block_cnst(node, cfg) ==
    IF Size(node) < Sizeof_block_cnst THEN [err |-> 1, config |-> cfg, out |-> <<>>]
    ELSE [err |-> 0, config |-> cfg,
          out |-> << strkey(KEY_cnst),
                     <<110, 99, 104, 97, 110, 110, 101, 108, 115, 58>> \o FmtD(Field(node.data, 0, 4)),
                     <<110, 115, 119, 101, 101, 112, 115, 58>> \o FmtD(Field(node.data, 4, 4)),
                     <<110, 115, 97, 109, 112, 108, 101, 115, 58>> \o FmtD(Field(node.data, 8, 4)),
                     <<105, 113, 105, 110, 100, 105, 99, 97, 116, 111, 114, 58>> \o FmtD(Field(node.data, 12, 4)),
                     <<>> >>]

dump_block_swep(node, cfg) ==
    IF Size(node) < Sizeof_block_swep THEN [err |-> 1, config |-> cfg, out |-> <<>>]
    ELSE [err |-> 0, config |-> cfg,
          out |-> << strkey(KEY_swep),
                     <<115, 97, 109, 112, 108, 101, 115, 112, 101, 114, 115, 119, 101, 101, 112, 58>> \o FmtD(Field(node.data, 0, 4)),
                     <<115, 119, 101, 101, 112, 115, 116, 97, 114, 116, 58>> \o Fmt20(DoubleValue(Field(node.data, 4, 8))),
                     <<115, 119, 101, 101, 112, 98, 97, 110, 100, 119, 105, 100, 116, 104, 58>> \o Fmt20(DoubleValue(Field(node.data, 12, 8))),
                     <<115, 119, 101, 101, 112, 114, 97, 116, 101, 58>> \o Fmt20(DoubleValue(Field(node.data, 20, 8))),
                     <<114, 97, 110, 103, 101, 111, 102, 102, 115, 101, 116, 58>> \o FmtD(Field(node.data, 28, 4)),
                     <<>> >>]

dump_block_fbin(node, cfg) ==
    IF Size(node) < Sizeof_block_fbin THEN [err |-> 1, config |-> cfg, out |-> <<>>]
    ELSE [err |-> 0, config |-> [cfg EXCEPT !.bin_type = Field(node.data, 4, 4)],
          out |-> << strkey(KEY_fbin),
                     <<102, 111, 114, 109, 97, 116, 58>> \o strkey(Field(node.data, 0, 4)),
                     <<116, 121, 112, 101, 58>> \o strkey(Field(node.data, 4, 4)),
                     <<>> >>]

dump_block_gtag(node, cfg) ==
    IF Size(node) < Sizeof_block_gtag THEN [err |-> 1, config |-> cfg, out |-> <<>>]
    ELSE [err |-> 0, config |-> cfg,
          out |-> << strkey(KEY_gtag), <<103, 116, 97, 103, 58>> \o FmtU(Field(node.data, 0, 4)), <<>> >>]

dump_block_atag(node, cfg) ==
    IF Size(node) < Sizeof_block_atag THEN [err |-> 1, config |-> cfg, out |-> <<>>]
    ELSE [err |-> 0, config |-> cfg,
          out |-> << strkey(KEY_atag), <<97, 116, 97, 103, 58>> \o FmtU(Field(node.data, 0, 4)), <<>> >>]

dump_block_indx(node, cfg) ==
    IF Size(node) < Sizeof_block_indx THEN [err |-> 1, config |-> cfg, out |-> <<>>]
    ELSE [err |-> 0, config |-> cfg,
          out |-> << strkey(KEY_indx), <<105, 110, 100, 101, 120, 58>> \o FmtU(Field(node.data, 0, 4)), <<>> >>]

\* dump_block_scal that remembers the first scale factor for both channels.
dump_block_scal_one_for_both(node, cfg) ==
    IF Size(node) < Sizeof_block_scal THEN [err |-> 1, config |-> cfg, out |-> <<>>]
    ELSE [err |-> 0,
          config |-> [cfg EXCEPT !.scalar_one = Field(node.data, 0, 8),
                                 !.scalar_two = Field(node.data, 0, 8)],
          out |-> << strkey(KEY_scal),
                     <<115, 99, 97, 108, 97, 114, 95, 111, 110, 101, 58>> \o Fmt20(DoubleValue(Field(node.data, 0, 8))),
                     <<115, 99, 97, 108, 97, 114, 95, 116, 119, 111, 58>> \o Fmt20(DoubleValue(Field(node.data, 8, 8))),
                     <<>> >>]

dump_block_scal(node, cfg) ==
    IF Size(node) < Sizeof_block_scal THEN [err |-> 1, config |-> cfg, out |-> <<>>]
    ELSE [err |-> 0,
          config |-> [cfg EXCEPT !.scalar_one = Field(node.data, 0, 8),
                                 !.scalar_two = Field(node.data, 8, 8)],
          out |-> << strkey(KEY_scal),
                     <<115, 99, 97, 108, 97, 114, 95, 111, 110, 101, 58>> \o Fmt20(DoubleValue(Field(node.data, 0, 8))),
                     <<115, 99, 97, 108, 97, 114, 95, 116, 119, 111, 58>> \o Fmt20(DoubleValue(Field(node.data, 8, 8))),
                     <<>> >>]

\* The switch with a default branch that keeps factor = 1.0 and goes on.
factor_default_kept(bin_type) ==
    IF bin_type = BINTYPE_FLT4 THEN 1
    ELSE IF bin_type = BINTYPE_FIX2 THEN 32767
    ELSE IF bin_type = BINTYPE_FIX3 THEN 8388607
    ELSE IF bin_type = BINTYPE_FIX4 THEN 2147483647
    ELSE 1

\* The full scale value the switch on config->bin_type selects; 0 stands
\* for the default branch, which prints "Unknown bin_type" and returns 1.
factor(bin_type) ==
    IF bin_type = BINTYPE_FLT4 THEN 1
    ELSE IF bin_type = BINTYPE_FIX2 THEN 32767
    ELSE IF bin_type = BINTYPE_FIX3 THEN 8388607
    ELSE IF bin_type = BINTYPE_FIX4 THEN 2147483647
    ELSE 0

\* An int16_t as an integer.
Int16(v) == IF v[1] >= 128 THEN (v[1] * 256 + v[2]) - 65536 ELSE v[1] * 256 + v[2]

\* (double)sample / factor * scalar
ScaleOut(sample, f, scalar) ==
    LET q == Reduce(Rat(IF sample < 0 THEN -1 ELSE 1,
                        IF sample < 0 THEN -sample ELSE sample, f))
    IN  Reduce(Rat(q.s * scalar.s, q.n * scalar.n, q.d * scalar.d))

dump_block_alvl(node, cfg) ==
    IF Size(node) < Sizeof_block_alvl THEN [err |-> 1, config |-> cfg, out |-> <<>>]
    ELSE IF factor(cfg.bin_type) = 0 THEN [err |-> 1, config |-> cfg, out |-> <<>>]
    ELSE LET nsamples == Size(node) \div Sizeof_block_alvl
             f == factor(cfg.bin_type)
             line(k) ==
                 LET loop == (k - 1) \div 2
                 IN  IF k % 2 = 1
                     THEN <<105, 58>> \o Fmt20(ScaleOut(Int16(Field(node.data, 4 * loop, 2)), f,
                                                  DoubleValue(cfg.scalar_one)))
                     ELSE <<113, 58>> \o Fmt20(ScaleOut(Int16(Field(node.data, 4 * loop + 2, 2)), f,
                                                  DoubleValue(cfg.scalar_two)))
         IN  [err |-> 0, config |-> cfg,
              out |-> << strkey(KEY_alvl) >> \o [k \in 1..(2 * nsamples) |-> line(k)] \o << <<>> >>]

dump_block(node, cfg) ==
    IF node.key = KEY_alvl THEN dump_block_alvl(node, cfg)
    ELSE IF node.key = KEY_gtag THEN dump_block_gtag(node, cfg)
    ELSE IF node.key = KEY_atag THEN dump_block_atag(node, cfg)
    ELSE IF node.key = KEY_indx THEN dump_block_indx(node, cfg)
    ELSE IF node.key = KEY_scal THEN dump_block_scal(node, cfg)
    ELSE IF node.key = KEY_sign THEN dump_block_sign(node, cfg)
    ELSE IF node.key = KEY_mcda THEN dump_block_mcda(node, cfg)
    ELSE IF node.key = KEY_cnst THEN dump_block_cnst(node, cfg)
    ELSE IF node.key = KEY_swep THEN dump_block_swep(node, cfg)
    ELSE IF node.key = KEY_fbin THEN dump_block_fbin(node, cfg)
    ELSE IF node.key = KEY_AQLV THEN dump_block_aqlv(node, cfg)
    ELSE IF node.key = KEY_HEAD THEN dump_block_head(node, cfg)
    ELSE IF node.key = KEY_BODY THEN dump_block_body(node, cfg)
    ELSE dump_block_end(node, cfg)

\* dump_list from node i on, with the config and the lines so far:
\* [err, config, out, at], at the node the pass stopped at.
RECURSIVE dump_list_from(_, _, _, _, _)
dump_list_from(nodes, i, cfg, out, header_only) ==
    IF i > Len(nodes) THEN [err |-> 0, config |-> cfg, out |-> out, at |-> i]
    ELSE IF find_block_functions(nodes[i].key) = <<>>
         THEN [err |-> 1, config |-> cfg, out |-> out, at |-> i]
    ELSE IF header_only = 1 /\ nodes[i].key = KEY_BODY
         THEN [err |-> 0, config |-> cfg, out |-> out, at |-> i]
    ELSE LET d == dump_block(nodes[i], cfg)
         IN  IF d.err = 1
             THEN [err |-> 1, config |-> d.config, out |-> out \o d.out, at |-> i]
             ELSE dump_list_from(nodes, i + 1, d.config, out \o d.out, header_only)

\* dump_list that does not look at just_header.
dump_list_whole(nodes, header_only) == dump_list_from(nodes, 1, ConfigZero, <<>>, 0)

dump_list(nodes, header_only) == dump_list_from(nodes, 1, ConfigZero, <<>>, header_only)


----------------------------------------------------------------------------
(* Reading text.  The text file is a sequence of lines, each ended by a    *)
(* newline.  fgets(line, SIZE_LINE, fd) hands over at most SIZE_LINE - 1   *)
(* characters at a time, so a long line is read in several pieces.  A file *)
(* position is [l, c]: piece c of line l is the next to be read.           *)

PosStart == [l |-> 1, c |-> 1]

\* How many characters fgets stores at most.
FgetsMax == SIZE_LINE - 1

\* The pieces line l is read in: its characters and its newline, cut every
\* FgetsMax characters.
Pieces(text, l) == (Len(text[l]) + 1 + (FgetsMax - 1)) \div FgetsMax

AtEof(text, pos) == pos.l > Len(text)

\* fgets followed by chomp: the piece at pos without its newline.
Fgets(text, pos) ==
    LET n == Len(text[pos.l])
        first == (pos.c - 1) * FgetsMax + 1
        last == IF pos.c * FgetsMax < n THEN pos.c * FgetsMax ELSE n
    IN  SubSeq(text[pos.l], first, last)

NextPos(text, pos) ==
    IF pos.c < Pieces(text, pos.l) THEN [l |-> pos.l, c |-> pos.c + 1]
    ELSE [l |-> pos.l + 1, c |-> 1]

IsSpace(ch) == ch \in {32, 9, 10, 11, 12, 13}
IsDigit(ch) == ch \in 48..57
IsHex(ch) == ch \in (48..57) \cup (97..102) \cup (65..70)
HexVal(ch) == IF ch \in 48..57 THEN ch - 48 ELSE IF ch \in 97..102 THEN ch - 87 ELSE ch - 55

\* The longest prefix of s whose characters all satisfy Is.
PrefixLen(s, Is(_)) ==
    LET bad == {i \in 1..Len(s) : ~Is(s[i])}
    IN  IF bad = {} THEN Len(s) ELSE SetMin(bad) - 1

Drop(s, n) == SubSeq(s, n + 1, Len(s))

SkipSpace(s) == Drop(s, PrefixLen(s, IsSpace))

\* The value of a run of decimal or hexadecimal digits in 32 bits
\* (the conversion stores the low 32 bits of what strtol computed).
RECURSIVE ParseDec(_, _)
ParseDec(digits, acc) ==
    IF digits = <<>> THEN acc
    ELSE ParseDec(Tail(digits), Mul10Add(acc, Head(digits) - 48))

RECURSIVE ParseHex(_, _)
ParseHex(digits, acc) ==
    IF digits = <<>> THEN acc
    ELSE ParseHex(Tail(digits), Mul16Add(acc, HexVal(Head(digits))))

\* A run of at most nine digits as a number.
RECURSIVE NatOf(_)
NatOf(digits) ==
    IF digits = <<>> THEN 0
    ELSE NatOf(SubSeq(digits, 1, Len(digits) - 1)) * 10 + (digits[Len(digits)] - 48)

RECURSIVE Pow10(_)
Pow10(k) == IF k = 0 THEN 1 ELSE 10 * Pow10(k - 1)

\* A conversion returns [count, val]: count like sscanf (1 stored, 0 the
\* input does not match, -1 the input ended before the conversion), and
\* val what it stores.  Each is given the input after the literal text.

\* A number begins with an optional sign.
Unsigned(s) == IF s # <<>> /\ s[1] \in {43, 45} THEN Tail(s) ELSE s
Negative(s) == s # <<>> /\ s[1] = 45
Signed(negative, mag) == IF negative THEN BytesNeg(mag) ELSE mag

Digits(t) == SubSeq(t, 1, PrefixLen(t, IsDigit))

\* %u and %d: white space, a sign, digits.  val is the numeric tuple.
\* s is the input after the white space, t is s after the sign.
ConvIntOf(s, t) ==
    IF s = <<>> THEN [count |-> -1, val |-> <<>>]
    ELSE IF Digits(t) = <<>> THEN [count |-> 0, val |-> <<>>]
    ELSE [count |-> 1, val |-> Signed(Negative(s), ParseDec(Digits(t), Zeros(4)))]

ConvInt(input) == ConvIntOf(SkipSpace(input), Unsigned(SkipSpace(input)))

\* %x: white space, a sign, an optional 0x, hexadecimal digits.
HexBody(t) ==
    IF Len(t) >= 3 /\ t[1] = 48 /\ t[2] \in {120, 88} /\ IsHex(t[3]) THEN Drop(t, 2) ELSE t

HexDigits(u) == SubSeq(u, 1, PrefixLen(u, IsHex))

ConvHexOf(s, u) ==
    IF s = <<>> THEN [count |-> -1, val |-> <<>>]
    ELSE IF HexDigits(u) = <<>> THEN [count |-> 0, val |-> <<>>]
    ELSE [count |-> 1, val |-> Signed(Negative(s), ParseHex(HexDigits(u), Zeros(4)))]

ConvHex(input) == ConvHexOf(SkipSpace(input), HexBody(Unsigned(SkipSpace(input))))

\* %lf: white space, a sign, digits, a point, digits.  val is the fraction.
\* (The exponent, "inf" and "nan" forms are not in the texts of this model.)
\* The digits after the point, and the same without the zeros at the end.
FracDigitsOf(t) ==
    LET after == Drop(t, Len(Digits(t)))
    IN  IF after # <<>> /\ after[1] = 46 THEN Digits(Tail(after)) ELSE <<>>

Significant(frac) ==
    LET nonzero == {i \in 1..Len(frac) : frac[i] # 48}
    IN  IF nonzero = {} THEN <<>>
        ELSE SubSeq(frac, 1, CHOOSE i \in nonzero : \A j \in nonzero : j <= i)

ConvDoubleOf(s, int, fracAll, frac) ==
    IF s = <<>> THEN [count |-> -1, val |-> <<>>]
    ELSE IF int = <<>> /\ fracAll = <<>> THEN [count |-> 0, val |-> <<>>]
    ELSE [count |-> 1,
          val |-> Reduce(Rat(IF Negative(s) THEN -1 ELSE 1,
                             NatOf(int) * Pow10(Len(frac)) + NatOf(frac),
                             Pow10(Len(frac))))]

ConvDouble(input) ==
    ConvDoubleOf(SkipSpace(input), Digits(Unsigned(SkipSpace(input))),
                 FracDigitsOf(Unsigned(SkipSpace(input))),
                 Significant(FracDigitsOf(Unsigned(SkipSpace(input)))))

\* %Nc: the next characters as they are, at most width of them, no
\* terminator; the conversion fails only when the input has ended.
ConvChars(input, width) ==
    IF input = <<>> THEN [count |-> -1, val |-> <<>>]
    ELSE [count |-> 1, val |-> SubSeq(input, 1, IF Len(input) < width THEN Len(input) ELSE width)]

\* %Ns: white space, then at most width characters that are no white
\* space, stored with a terminating NUL.
ConvString(input, width) ==
    LET s == SkipSpace(input)
        n == PrefixLen(s, LAMBDA ch : ~IsSpace(ch))
    IN  IF s = <<>> THEN [count |-> -1, val |-> <<>>]
        ELSE [count |-> 1, val |-> SubSeq(s, 1, IF n < width THEN n ELSE width) \o <<0>>]

Conv(input, conv) ==
    IF conv \in {"u", "d"} THEN ConvInt(input)
    ELSE IF conv = "x" THEN ConvHex(input)
    ELSE IF conv = "lf" THEN ConvDouble(input)
    ELSE IF conv = "4c" THEN ConvChars(input, 4)
    ELSE IF conv = "64c" THEN ConvChars(input, 64)
    ELSE ConvString(input, 4)

\* sscanf(line, format, buffer) for a format made of literal text and one
\* conversion.  The literal text is matched character by character: a
\* difference ends the scan with 0, the end of the line ends it with EOF.
sscanf(line, literal, conv) ==
    LET diff == {k \in 1..Len(literal) : k > Len(line) \/ line[k] # literal[k]}
    IN  IF diff = {} THEN Conv(Drop(line, Len(literal)), conv)
        ELSE IF SetMin(diff) > Len(line) THEN [count |-> -1, val |-> <<>>]
        ELSE [count |-> 0, val |-> <<>>]

\* read_parameter: reads lines from pos until a blank line (err 1) or a
\* line for which sscanf does not return 0 (err 0).  At the end of the file
\* the loop ends with err 0 as well.  stored tells whether the conversion
\* wrote the buffer, val what it wrote.  The position is put back.
RECURSIVE read_parameter_from(_, _, _, _)
\* What follows the sscanf of a line: sc is what it returned and stored.
read_parameter_line(sc, text, pos, literal, conv) ==
    IF sc.count # 0 THEN [err |-> 0, stored |-> sc.count = 1, val |-> sc.val]
    ELSE read_parameter_from(text, NextPos(text, pos), literal, conv)

read_parameter_from(text, pos, literal, conv) ==
    IF AtEof(text, pos) THEN [err |-> 0, stored |-> FALSE, val |-> <<>>]
    ELSE IF Len(Fgets(text, pos)) = 0 THEN [err |-> 1, stored |-> FALSE, val |-> <<>>]
    ELSE read_parameter_line(sscanf(Fgets(text, pos), literal, conv), text, pos, literal, conv)

read_parameter(text, pos, literal, conv) == read_parameter_from(text, pos, literal, conv)


----------------------------------------------------------------------------
(* The text builder.  A make function returns [err, node, config]: the     *)
(* node is linked to the list before any line is read, so it is there on   *)
(* failure as well, with what had been stored by then.                     *)

\* What a found parameter puts in the data block at offset off.
Store(data, off, conv, val) ==
    IF conv \in {"u", "d", "x"} THEN SetField(data, off, val)
    ELSE IF conv = "lf" THEN SetField(data, off, DoubleBits(val))
    ELSE Splice(data, off, val)

\* The calls of read_parameter of one make function, in their order, each
\* <<literal, conversion, offset>>; the first that fails ends the function.
\* ReadField is what follows a call: p is what read_parameter returned.
RECURSIVE ReadFields(_, _, _, _)
ReadField(p, text, pos, fields, data) ==
    IF p.err = 1 THEN [err |-> 1, data |-> data]
    ELSE ReadFields(text, pos, Tail(fields),
                    IF p.stored THEN Store(data, Head(fields)[3], Head(fields)[2], p.val)
                    ELSE data)

ReadFields(text, pos, fields, data) ==
    IF fields = <<>> THEN [err |-> 0, data |-> data]
    ELSE ReadField(read_parameter(text, pos, Head(fields)[1], Head(fields)[2]),
                   text, pos, fields, data)

\* The node of a block of size total whose data was read with result r.
Made(key, total, r, cfg) ==
    [err |-> r.err, node |-> Node(key, FromNat(total), r.data), config |-> cfg]

MakeFields(key, total, fields, cfg, text, pos) ==
    Made(key, total, ReadFields(text, pos, fields, Zeros(total)), cfg)

\* The blocks composed of sub blocks: no data, the size is set at the end.
make_node_aqlv(cfg, text, pos) ==
    [err |-> 0, node |-> Node(KEY_AQLV, Zeros(4), <<>>), config |-> cfg]
make_node_head(cfg, text, pos) ==
    [err |-> 0, node |-> Node(KEY_HEAD, Zeros(4), <<>>), config |-> cfg]
make_node_body(cfg, text, pos) ==
    [err |-> 0, node |-> Node(KEY_BODY, Zeros(4), <<>>), config |-> cfg]
make_node_end(cfg, text, pos) ==
    [err |-> 0, node |-> Node(KEY_END, Zeros(4), <<>>), config |-> cfg]

make_node_sign(cfg, text, pos) ==
    MakeFields(KEY_sign, Sizeof_block_sign,
               << <<<<118, 101, 114, 115, 105, 111, 110, 58>>, "4c", 0>>, <<<<102, 105, 108, 101, 116, 121, 112, 101, 58>>, "4c", 4>>,
                  <<<<115, 105, 116, 101, 99, 111, 100, 101, 58>>, "4c", 8>>, <<<<117, 115, 101, 114, 102, 108, 97, 103, 115, 58>>, "x", 12>>,
                  <<<<100, 101, 115, 99, 114, 105, 112, 116, 105, 111, 110, 58>>, "64c", 16>>, <<<<111, 119, 110, 101, 114, 110, 97, 109, 101, 58>>, "64c", 80>>,
                  <<<<99, 111, 109, 109, 101, 110, 116, 58>>, "64c", 144>> >>, cfg, text, pos)

\* make_node_mcda: the offset is added to what the field holds after
\* read_parameter has returned 0.
AddEpoch(m) ==
    IF m.err = 1 THEN m
    ELSE [m EXCEPT !.node.data = SetField(@, 0, BytesAdd(Field(@, 0, 4), EpochOffset))]

make_node_mcda(cfg, text, pos) ==
    AddEpoch(MakeFields(KEY_mcda, Sizeof_block_mcda, << <<<<116, 105, 109, 101, 115, 116, 97, 109, 112, 58>>, "u", 0>> >>,
                        cfg, text, pos))

make_node_cnst(cfg, text, pos) ==
    MakeFields(KEY_cnst, Sizeof_block_cnst,
               << <<<<110, 99, 104, 97, 110, 110, 101, 108, 115, 58>>, "d", 0>>, <<<<110, 115, 119, 101, 101, 112, 115, 58>>, "d", 4>>,
                  <<<<110, 115, 97, 109, 112, 108, 101, 115, 58>>, "d", 8>>, <<<<105, 113, 105, 110, 100, 105, 99, 97, 116, 111, 114, 58>>, "d", 12>> >>, cfg, text, pos)

make_node_swep(cfg, text, pos) ==
    MakeFields(KEY_swep, Sizeof_block_swep,
               << <<<<115, 97, 109, 112, 108, 101, 115, 112, 101, 114, 115, 119, 101, 101, 112, 58>>, "d", 0>>, <<<<115, 119, 101, 101, 112, 115, 116, 97, 114, 116, 58>>, "lf", 4>>,
                  <<<<115, 119, 101, 101, 112, 98, 97, 110, 100, 119, 105, 100, 116, 104, 58>>, "lf", 12>>, <<<<115, 119, 101, 101, 112, 114, 97, 116, 101, 58>>, "lf", 20>>,
                  <<<<114, 97, 110, 103, 101, 111, 102, 102, 115, 101, 116, 58>>, "d", 28>> >>, cfg, text, pos)

\* make_node_fbin: each code is read as a string of at most 4 characters
\* into its 4 byte field and then fixed up.  sscanf ends the string with a
\* NUL: the fifth byte written for format is the first byte of type (then
\* overwritten), the fifth written for type lies behind the struct, in the
\* slack of the allocation.
FbinNode(err, data, cfg) ==
    [err |-> err, node |-> Node(KEY_fbin, FromNat(Sizeof_block_fbin), data), config |-> cfg]

\* The data after the format was read (p1) and fixed up.
FbinFormat(p1) ==
    LET d1 == IF p1.stored THEN Splice(Zeros(Sizeof_block_fbin), 0, p1.val)
              ELSE Zeros(Sizeof_block_fbin)
    IN  Splice(d1, 0, endian_fixup(SubSeq(d1, 1, 4)))

\* The data d2 after the type was read (p2) and fixed up.
FbinType(d2, p2) ==
    LET d3 == IF p2.stored
              THEN SubSeq(Splice(d2 \o <<0>>, 4, p2.val), 1, Sizeof_block_fbin)
              ELSE d2
    IN  Splice(d3, 4, endian_fixup(SubSeq(d3, 5, 8)))

FbinDone(d4, cfg) == FbinNode(0, d4, [cfg EXCEPT !.bin_type = Field(d4, 4, 4)])

FbinSecond(d2, p2, cfg) ==
    IF p2.err = 1 THEN FbinNode(1, d2, cfg) ELSE FbinDone(FbinType(d2, p2), cfg)

FbinFirst(p1, cfg, text, pos) ==
    IF p1.err = 1 THEN FbinNode(1, Zeros(Sizeof_block_fbin), cfg)
    ELSE FbinSecond(FbinFormat(p1), read_parameter(text, pos, <<116, 121, 112, 101, 58>>, "4s"), cfg)

make_node_fbin(cfg, text, pos) ==
    FbinFirst(read_parameter(text, pos, <<102, 111, 114, 109, 97, 116, 58>>, "4s"), cfg, text, pos)

make_node_gtag(cfg, text, pos) ==
    MakeFields(KEY_gtag, Sizeof_block_gtag, << <<<<103, 116, 97, 103, 58>>, "u", 0>> >>, cfg, text, pos)

make_node_atag(cfg, text, pos) ==
    MakeFields(KEY_atag, Sizeof_block_atag, << <<<<97, 116, 97, 103, 58>>, "u", 0>> >>, cfg, text, pos)

make_node_indx(cfg, text, pos) ==
    MakeFields(KEY_indx, Sizeof_block_indx, << <<<<105, 110, 100, 101, 120, 58>>, "u", 0>> >>, cfg, text, pos)

SetScalars(m) ==
    IF m.err = 1 THEN m
    ELSE [m EXCEPT !.config = [@ EXCEPT !.scalar_one = Field(m.node.data, 0, 8),
                                        !.scalar_two = Field(m.node.data, 8, 8)]]

make_node_scal(cfg, text, pos) ==
    SetScalars(MakeFields(KEY_scal, Sizeof_block_scal,
                          << <<<<115, 99, 97, 108, 97, 114, 95, 111, 110, 101, 58>>, "lf", 0>>, <<<<115, 99, 97, 108, 97, 114, 95, 116, 119, 111, 58>>, "lf", 8>> >>,
                          cfg, text, pos))

\* count_alvl_lines: the lines before the first empty one or the end.
RECURSIVE count_alvl_from(_, _, _)
count_alvl_from(text, pos, count) ==
    IF AtEof(text, pos) THEN count
    ELSE IF Len(Fgets(text, pos)) < 1 THEN count
    ELSE count_alvl_from(text, NextPos(text, pos), count + 1)

count_alvl_lines(text, pos) == count_alvl_from(text, pos, 0)

\* int x_int = round((x / scalar) * factor), stored in an int16_t: the two
\* bytes in memory.  round goes to the nearest integer, halves away from
\* zero; the int16_t keeps the low 16 bits.  With scalar zero the quotient
\* is infinite or not a number, and its conversion to int is undefined:
\* undef is the int16_t the build then stores.
Sample(x, scalar, f, undef) ==
    IF scalar.n = 0 THEN Mem(undef)
    ELSE LET n == x.n * scalar.d * f
             d == x.d * scalar.n
             mag == (n \div d) + (IF 2 * (n % d) >= d THEN 1 ELSE 0)
             int == x.s * scalar.s * mag
             low == int % 65536
         IN  Mem(<<low \div 256, low % 256>>)

\* read_alvl_samples: [err, data].  ReadSample is what follows the two
\* calls of sscanf for a sample: i and q are what they returned and stored.
RECURSIVE read_alvl_from(_, _, _, _, _, _)
ReadSample(i, q, text, pos, sample_count, alvl_samples, cfg, st) ==
    IF i.count # 1 THEN [err |-> 1, data |-> st.data]
    ELSE IF q.count # 1 THEN [err |-> 1, data |-> st.data]
    ELSE read_alvl_from(text, NextPos(text, NextPos(text, pos)), sample_count + 1,
             alvl_samples, cfg,
             [st EXCEPT !.data =
                 Splice(@, 4 * sample_count,
                        Sample(i.val, DoubleValue(cfg.scalar_one),
                               factor(cfg.bin_type), st.undef)
                        \o Sample(q.val, DoubleValue(cfg.scalar_two),
                                  factor(cfg.bin_type), st.undef))])

read_alvl_from(text, pos, sample_count, alvl_samples, cfg, st) ==
    IF sample_count >= alvl_samples THEN [err |-> 0, data |-> st.data]
    ELSE IF AtEof(text, pos) \/ AtEof(text, NextPos(text, pos)) THEN [err |-> 1, data |-> st.data]
    ELSE IF Len(Fgets(text, pos)) = 0 \/ Len(Fgets(text, NextPos(text, pos))) = 0
         THEN [err |-> 1, data |-> st.data]
    ELSE ReadSample(sscanf(Fgets(text, pos), <<105, 58>>, "lf"),
                    sscanf(Fgets(text, NextPos(text, pos)), <<113, 58>>, "lf"),
                    text, pos, sample_count, alvl_samples, cfg, st)

read_alvl_samples(alvl_data, alvl_samples, cfg, text, pos, undef) ==
    IF factor(cfg.bin_type) = 0 THEN [err |-> 1, data |-> alvl_data]
    ELSE read_alvl_from(text, pos, 0, alvl_samples, cfg, [data |-> alvl_data, undef |-> undef])

\* make_node_alvl: data is <<>> while nothing has been allocated.
make_node_alvl(cfg, text, pos, undef) ==
    LET alvl_lines == count_alvl_lines(text, pos)
        alvl_samples == alvl_lines \div 2
        alvl_size == alvl_samples * Sizeof_block_alvl
    IN  IF alvl_lines <= 0
        THEN [err |-> 1, node |-> Node(KEY_alvl, Zeros(4), <<>>), config |-> cfg]
        ELSE IF alvl_lines % 2 = 1
        THEN [err |-> 1, node |-> Node(KEY_alvl, Zeros(4), <<>>), config |-> cfg]
        ELSE Made(KEY_alvl, alvl_size,
                  read_alvl_samples(Zeros(alvl_size), alvl_samples, cfg, text, pos, undef), cfg)

make_node(key, cfg, text, pos, undef) ==
    IF key = KEY_alvl THEN make_node_alvl(cfg, text, pos, undef)
    ELSE IF key = KEY_gtag THEN make_node_gtag(cfg, text, pos)
    ELSE IF key = KEY_atag THEN make_node_atag(cfg, text, pos)
    ELSE IF key = KEY_indx THEN make_node_indx(cfg, text, pos)
    ELSE IF key = KEY_scal THEN make_node_scal(cfg, text, pos)
    ELSE IF key = KEY_sign THEN make_node_sign(cfg, text, pos)
    ELSE IF key = KEY_mcda THEN make_node_mcda(cfg, text, pos)
    ELSE IF key = KEY_cnst THEN make_node_cnst(cfg, text, pos)
    ELSE IF key = KEY_swep THEN make_node_swep(cfg, text, pos)
    ELSE IF key = KEY_fbin THEN make_node_fbin(cfg, text, pos)
    ELSE IF key = KEY_AQLV THEN make_node_aqlv(cfg, text, pos)
    ELSE IF key = KEY_HEAD THEN make_node_head(cfg, text, pos)
    ELSE IF key = KEY_BODY THEN make_node_body(cfg, text, pos)
    ELSE make_node_end(cfg, text, pos)

\* The first four bytes of the line buffer as tsgen takes its key: a line
\* shorter than four characters is followed by its NUL.
LineKey(line) == endian_fixup(Mem(SubSeq(line \o Zeros(4), 1, 4)))

\* One turn of the while loop of tsgen on the line read at pos, with the
\* list and the config so far: what the turn does ("skip" the line, "make"
\* a node, "return" 1) and the list and config it leaves.  tsgen_made is
\* what follows the call of the make function, m what that returned.
tsgen_made(m, nodes) ==
    [act |-> IF m.err = 1 THEN "return" ELSE "make",
     list |-> Append(nodes, m.node), config |-> m.config]

tsgen_line(text, pos, nodes, cfg, undef) ==
    LET line == Fgets(text, pos)
        key == LineKey(line)
    IN  IF Len(line) <= 1 THEN [act |-> "skip", list |-> nodes, config |-> cfg]
        ELSE IF \E k \in 1..Len(line) : line[k] = 58
             THEN [act |-> "skip", list |-> nodes, config |-> cfg]
        ELSE IF find_block_functions(key) = <<>>
             THEN [act |-> "return", list |-> nodes, config |-> cfg]
        ELSE tsgen_made(make_node(key, cfg, text, NextPos(text, pos), undef), nodes)

\* The whole loop from pos on: [err, list, config].
RECURSIVE tsgen_build_from(_, _, _, _, _)
tsgen_turn(t, text, pos, undef) ==
    IF t.act = "return" THEN [err |-> 1, list |-> t.list, config |-> t.config]
    ELSE tsgen_build_from(text, NextPos(text, pos), t.list, t.config, undef)

tsgen_build_from(text, pos, nodes, cfg, undef) ==
    IF AtEof(text, pos) THEN [err |-> 0, list |-> nodes, config |-> cfg]
    ELSE tsgen_turn(tsgen_line(text, pos, nodes, cfg, undef), text, pos, undef)

tsgen_build(text, undef) == tsgen_build_from(text, PosStart, <<>>, ConfigZero, undef)


----------------------------------------------------------------------------
(* The inputs of a run: binary files for tsdump, text files for tsgen.     *)

\* The most samples an alvl block of an input file holds.
MaxSamples == 2

\* The most stanzas that are left out of the text template at once.
MaxDropped == 2

\* A block as it lies in a file: key and size most significant byte first,
\* then the data.  BlkSized declares a size that is not that of the data.
BlkSized(key, size, payload) == key \o FromNat(size) \o payload
Blk(key, payload) == BlkSized(key, Len(payload), payload)

Half == Rat(1, 1, 2)
One == Rat(1, 1, 1)
Two == Rat(1, 2, 1)

\* Sample k of an input block: full scale and minus full scale (0x7fff and
\* 0x8001), or 0 and minus full scale.
SampleBytes(k) == IF k % 2 = 1 THEN <<127, 255, 128, 1>> ELSE <<0, 0, 128, 1>>

AlvlBytes(n) == [j \in 1..(4 * n) |-> SampleBytes((j + 3) \div 4)[((j - 1) % 4) + 1]]

Pad(s, n) == s \o Zeros(n - Len(s))

B_gtag == Blk(KEY_gtag, <<0, 0, 0, 7>>)
B_atag == Blk(KEY_atag, <<0, 0, 1, 0>>)
B_indx == Blk(KEY_indx, <<0, 0, 0, 1>>)
B_fbin(type) == Blk(KEY_fbin, BINFORMAT_CVIQ \o type)
B_scal(one, two) == Blk(KEY_scal, DoubleBits(one) \o DoubleBits(two))
B_mcda(t) == Blk(KEY_mcda, t)
B_cnst == Blk(KEY_cnst, <<0, 0, 0, 3, 0, 0, 0, 2, 0, 0, 0, 1, 255, 255, 255, 255>>)
B_swep == Blk(KEY_swep, <<0, 0, 0, 2>> \o DoubleBits(Two) \o DoubleBits(Half)
                        \o DoubleBits(One) \o <<0, 0, 0, 0>>)
B_sign == Blk(KEY_sign, <<49, 46, 48, 48>> \o <<84, 83, 69, 82>> \o <<83, 73, 84, 69>> \o <<0, 0, 0, 31>>
                        \o Pad(<<116, 101, 115, 116, 32, 114, 101, 99, 111, 114, 100>>, SIZE_DESCRIPTION)
                        \o Pad(<<110, 111, 98, 111, 100, 121>>, SIZE_OWNERNAME) \o Pad(<<110, 111, 110, 101>>, SIZE_COMMENT))
B_alvl(n) == Blk(KEY_alvl, AlvlBytes(n))

\* A record: the outer block around the head and the body, then the end.
Record(head, body) ==
    Blk(KEY_AQLV, Blk(KEY_HEAD, head) \o Blk(KEY_BODY, body)) \o Blk(KEY_END, <<>>)

HeadMenu ==
    { <<>>,
      B_gtag,
      B_fbin(BINTYPE_FIX2) \o B_scal(Two, One),
      B_fbin(BINTYPE_FLT4) \o B_scal(One, Half),
      B_fbin(<<97, 98, 99, 100>>) \o B_scal(Two, One),
      B_scal(Two, One),
      B_fbin(BINTYPE_FIX2),
      B_mcda(<<0, 0, 0, 0>>) \o B_fbin(BINTYPE_FIX2) \o B_scal(Two, One),
      B_mcda(BytesAdd(EpochOffset, <<0, 0, 0, 1>>)) \o B_fbin(BINTYPE_FIX2) \o B_scal(Two, One),
      B_mcda(<<0, 0, 0, 5>>),
      B_sign \o B_cnst \o B_swep \o B_fbin(BINTYPE_FIX2) \o B_scal(Two, One),
      Blk(KEY_gtag, <<0, 0, 0, 7, 0, 0, 0, 9>>),
      Blk(<<122, 122, 122, 122>>, <<1, 2, 3, 4>>) }

BodyMenu ==
    { <<>>,
      B_indx \o B_atag \o B_alvl(1),
      Blk(KEY_alvl, AlvlBytes(1) \o <<0, 1>>),
      B_alvl(1) \o B_fbin(BINTYPE_FLT4) \o B_scal(One, Half) \o B_alvl(1) }
    \cup { B_alvl(n) : n \in 1..MaxSamples }

Prefixes(file) == { SubSeq(file, 1, n) : n \in 0..Len(file) }

\* Files whose sizes do not fit: an outer block that declares less than it
\* holds (the head is cut to what is left of the outer range), a head that
\* declares 4 bytes, a file that does not begin with the outer key, and a
\* record followed by eight bytes of zero.
OddFiles ==
    { BlkSized(KEY_AQLV, 20, BlkSized(KEY_HEAD, 12 + 8, B_gtag))
          \o Blk(KEY_BODY, B_alvl(1)) \o Blk(KEY_END, <<>>),
      Blk(KEY_AQLV, BlkSized(KEY_HEAD, 4, B_gtag \o B_atag) \o Blk(KEY_BODY, B_indx))
          \o Blk(KEY_END, <<>>),
      Blk(KEY_HEAD, B_gtag) \o Blk(KEY_END, <<>>),
      Record(B_gtag, B_indx) \o Zeros(SizeofHeader) }

BinaryFiles ==
    { Record(h, b) : h \in HeadMenu, b \in BodyMenu }
    \cup Prefixes(Record(B_fbin(BINTYPE_FIX2) \o B_scal(Two, One), B_alvl(MaxSamples)))
    \cup OddFiles


\* The stanzas of a text file, as tsdump writes them: the key line, the
\* parameter lines, a blank line.  END has no blank line after it.
St_AQLV == << <<65, 81, 86, 76>>, <<>> >>
St_HEAD == << <<72, 69, 65, 68>>, <<>> >>
St_BODY == << <<66, 79, 68, 89>>, <<>> >>
St_END == << <<69, 78, 68, 32>> >>
St_sign == << <<115, 105, 103, 110>>, <<118, 101, 114, 115, 105, 111, 110, 58, 49, 46, 48, 48>>, <<102, 105, 108, 101, 116, 121, 112, 101, 58, 84, 83, 69, 82>>, <<115, 105, 116, 101, 99, 111, 100, 101, 58, 83, 73, 84, 69>>,
              <<117, 115, 101, 114, 102, 108, 97, 103, 115, 58, 49, 102>>, <<100, 101, 115, 99, 114, 105, 112, 116, 105, 111, 110, 58, 116, 101, 115, 116, 32, 114, 101, 99, 111, 114, 100>>, <<111, 119, 110, 101, 114, 110, 97, 109, 101, 58, 110, 111, 98, 111, 100, 121>>,
              <<99, 111, 109, 109, 101, 110, 116, 58, 110, 111, 110, 101>>, <<>> >>
St_mcda == << <<109, 99, 100, 97>>, <<116, 105, 109, 101, 115, 116, 97, 109, 112, 58, 49, 32, 40, 78, 66, 58, 32, 115, 101, 99, 111, 110, 100, 115, 32, 115, 105, 110, 99, 101, 32, 49, 57, 55, 48, 41, 32, 40, 84, 104, 117, 32, 74, 97, 110, 32, 32, 49, 32, 48, 48, 58, 48, 48, 58, 48, 49, 32, 49, 57, 55, 48, 41>>,
              <<>> >>
St_cnst == << <<99, 110, 115, 116>>, <<110, 99, 104, 97, 110, 110, 101, 108, 115, 58, 51>>, <<110, 115, 119, 101, 101, 112, 115, 58, 50>>, <<110, 115, 97, 109, 112, 108, 101, 115, 58, 49>>, <<105, 113, 105, 110, 100, 105, 99, 97, 116, 111, 114, 58, 45, 49>>,
              <<>> >>
St_swep == << <<115, 119, 101, 112>>, <<115, 97, 109, 112, 108, 101, 115, 112, 101, 114, 115, 119, 101, 101, 112, 58, 50>>, <<115, 119, 101, 101, 112, 115, 116, 97, 114, 116, 58, 50, 46, 48, 48, 48, 48, 48, 48, 48, 48, 48, 48, 48, 48, 48, 48, 48, 48, 48, 48, 48, 48>>,
              <<115, 119, 101, 101, 112, 98, 97, 110, 100, 119, 105, 100, 116, 104, 58, 48, 46, 53, 48, 48, 48, 48, 48, 48, 48, 48, 48, 48, 48, 48, 48, 48, 48, 48, 48, 48, 48>>,
              <<115, 119, 101, 101, 112, 114, 97, 116, 101, 58, 49, 46, 48, 48, 48, 48, 48, 48, 48, 48, 48, 48, 48, 48, 48, 48, 48, 48, 48, 48, 48, 48>>, <<114, 97, 110, 103, 101, 111, 102, 102, 115, 101, 116, 58, 48>>, <<>> >>
St_fbin(type) == << <<102, 98, 105, 110>>, <<102, 111, 114, 109, 97, 116, 58, 99, 118, 105, 113>>, <<116, 121, 112, 101, 58>> \o type, <<>> >>
St_gtag == << <<103, 116, 97, 103>>, <<103, 116, 97, 103, 58, 55>>, <<>> >>
St_atag == << <<97, 116, 97, 103>>, <<97, 116, 97, 103, 58, 50, 53, 54>>, <<>> >>
St_indx == << <<105, 110, 100, 120>>, <<105, 110, 100, 101, 120, 58, 49>>, <<>> >>
St_scal(one, two) == << <<115, 99, 97, 108>>, <<115, 99, 97, 108, 97, 114, 95, 111, 110, 101, 58>> \o one, <<115, 99, 97, 108, 97, 114, 95, 116, 119, 111, 58>> \o two, <<>> >>

SampleLines(k) ==
    IF k % 2 = 1 THEN << <<105, 58, 49, 46, 48>>, <<113, 58, 45, 48, 46, 53>> >> ELSE << <<105, 58, 48, 46, 48>>, <<113, 58, 48, 46, 50, 53>> >>

St_alvl(n) ==
    << <<97, 108, 118, 108>> >> \o [j \in 1..(2 * n) |-> SampleLines((j + 1) \div 2)[((j - 1) % 2) + 1]]
    \o << <<>> >>

\* A sample stanza of one line that is longer than the line buffer: an i
\* value, spaces up to FgetsMax characters, a q value.
St_alvl_long ==
    << <<97, 108, 118, 108>>, <<105, 58, 49, 46, 48>> \o [k \in 1..(FgetsMax - 5) |-> 32] \o <<113, 58, 45, 48, 46, 53>>, <<>> >>

\* A line of another key: 'note:1'; the same filled up with 'x' to n
\* characters.
OtherLine == <<110, 111, 116, 101, 58, 49>>
OtherLineOf(n) == [j \in 1..n |-> IF j <= Len(OtherLine) THEN OtherLine[j] ELSE 120]

\* The cnst stanza with its lines in another order and a line of another
\* key among them; the cnst stanza followed by a line of another key that
\* fills the line buffer.
St_cnst_mixed ==
    << St_cnst[1], St_cnst[4], OtherLine, St_cnst[5], St_cnst[2], St_cnst[3], <<>> >>
St_cnst_long ==
    << St_cnst[1], St_cnst[2], St_cnst[3], St_cnst[4], St_cnst[5], OtherLineOf(FgetsMax), <<>> >>

RECURSIVE Flatten(_)
Flatten(ss) == IF ss = <<>> THEN <<>> ELSE Head(ss) \o Flatten(Tail(ss))

\* The template a text is cut from: one record, every region filled.
Template ==
    << St_AQLV, St_HEAD, St_mcda, St_fbin(<<102, 105, 120, 50>>), St_scal(<<50, 46, 48>>, <<49, 46, 48>>),
       St_BODY, St_indx, St_alvl(MaxSamples), St_END >>

Without(ss, dropped) ==
    LET kept == {i \in 1..Len(ss) : i \notin dropped}
        nth(k) == CHOOSE i \in kept : Cardinality({j \in kept : j < i}) = k - 1
    IN  [k \in 1..Cardinality(kept) |-> ss[nth(k)]]

\* The template with at most MaxDropped of its stanzas left out.
DroppedTexts ==
    { Flatten(Without(Template, d)) :
        d \in {s \in SUBSET (1..Len(Template)) : Cardinality(s) <= MaxDropped} }

\* The template with one of its lines left out.
ShortTexts ==
    { Without(Flatten(Template), {l}) : l \in 1..Len(Flatten(Template)) }

\* Other texts: every block type; the other sample types; a line that is
\* no key; two records; a block before the head; no line at all; scale
\* factors of zero; a line longer than the line buffer; a sample line
\* longer than the line buffer; sample stanzas before and after a change
\* of the sample type and the scale factors; a line of one character
\* between two stanzas; a stanza with its lines in another order and a
\* line of another key; a stanza with a line of another key that fills
\* the line buffer; a stanza without its key line
\* at the end of the text, with the start of its key line, with another
\* line.
OtherTexts ==
    { Flatten(<< St_AQLV, St_HEAD, St_sign, St_mcda, St_cnst, St_swep, St_fbin(<<102, 105, 120, 50>>),
                 St_BODY, St_gtag, St_atag, St_indx, St_scal(<<50, 46, 48>>, <<49, 46, 48>>),
                 St_alvl(1), St_END >>),
      Flatten(<< St_AQLV, St_HEAD, St_fbin(<<102, 108, 116, 52>>), St_scal(<<49, 46, 48>>, <<48, 46, 53>>),
                 St_BODY, St_alvl(1), St_END >>),
      Flatten(<< St_AQLV, St_HEAD, St_fbin(<<102, 105, 120, 51>>), St_scal(<<49, 46, 48>>, <<49, 46, 48>>),
                 St_BODY, St_alvl(1), St_END >>),
      Flatten(<< St_AQLV, St_HEAD, St_fbin(<<102, 105, 120, 52>>), St_scal(<<49, 46, 48>>, <<49, 46, 48>>),
                 St_BODY, St_alvl(1), St_END >>),
      Flatten(<< St_AQLV, St_HEAD, St_fbin(<<97, 98, 99, 100>>), St_scal(<<49, 46, 48>>, <<49, 46, 48>>),
                 St_BODY, St_alvl(1), St_END >>),
      Flatten(<< St_AQLV, St_HEAD, St_gtag, << <<106, 117, 110, 107>>, <<>> >>, St_BODY, St_indx, St_END >>),
      Flatten(<< St_AQLV, St_HEAD, St_gtag, St_BODY, St_indx, St_END,
                 St_AQLV, St_HEAD, St_atag, St_BODY, St_indx, St_END >>),
      Flatten(<< St_AQLV, St_gtag, St_HEAD, St_atag, St_BODY, St_indx, St_END >>),
      <<>>,
      Flatten(<< St_AQLV, St_HEAD, St_fbin(<<102, 105, 120, 50>>), St_scal(<<48, 46, 48>>, <<48, 46, 48>>),
                 St_BODY, St_alvl(1), St_END >>),
      Flatten(<< St_AQLV, St_HEAD,
                 << <<109, 99, 100, 97>>,
                    <<116, 105, 109, 101, 115, 116, 97, 109, 112, 58, 49, 56, 52, 52, 54, 55, 52, 52, 48, 55, 49, 54, 50, 54, 55, 48, 54, 56, 50, 49, 32, 40, 78, 66, 58, 32, 115, 101, 99, 111, 110, 100, 115, 32, 115, 105, 110, 99, 101, 32, 49, 57, 55, 48, 41, 32, 40, 84, 104, 117, 32, 74, 97, 110, 32, 32, 49, 32, 48, 48, 58, 48, 48, 58, 48, 48, 32, 49, 57, 55, 48, 41>>,
                    <<>> >>,
                 St_BODY, St_indx, St_END >>),
      Flatten(<< St_AQLV, St_HEAD, St_fbin(<<102, 105, 120, 50>>), St_scal(<<50, 46, 48>>, <<49, 46, 48>>),
                 St_BODY, St_alvl_long, St_END >>),
      Flatten(<< St_AQLV, St_HEAD, St_fbin(<<102, 105, 120, 50>>), St_scal(<<50, 46, 48>>, <<49, 46, 48>>),
                 St_BODY, St_alvl(1), St_fbin(<<102, 108, 116, 52>>), St_scal(<<49, 46, 48>>, <<48, 46, 53>>),
                 St_alvl(1), St_END >>),
      Flatten(<< St_AQLV, << <<88>>, <<>> >>, St_HEAD, St_gtag, St_BODY, St_indx, St_END >>),
      Flatten(<< St_AQLV, St_HEAD, St_cnst_mixed, St_BODY, St_indx, St_END >>),
      Flatten(<< St_AQLV, St_HEAD, St_cnst_long, St_BODY, St_indx, St_END >>),
      Flatten(<< St_AQLV, St_HEAD, St_gtag, St_BODY, << <<105, 110, 100, 120>> >> >>),
      Flatten(<< St_AQLV, St_HEAD, St_gtag, St_BODY, << <<105, 110, 100, 120>>, <<105>>, <<>> >>, St_END >>),
      Flatten(<< St_AQLV, St_HEAD, St_gtag, St_BODY, << <<105, 110, 100, 120>>, <<111, 116, 104, 101, 114, 58, 49>>, <<>> >>, St_END >>) }

TextFiles == DroppedTexts \cup ShortTexts \cup OtherTexts


----------------------------------------------------------------------------
(* The runs.  main picks tsdump or tsgen by the name of the program; a run *)
(* goes through the passes in the order of the code.  malloc and the       *)
(* writes to the output file succeed.                                      *)

\* What is known of the passes of a run: the return value of each (-1: not
\* run), whether the behaviour of the run was undefined (ub), whether the
\* parser touched bytes outside the file buffer (outside), whether its
\* length counter went below zero (wrapped), for every header the parser
\* read the key, the size the node got, the declared size and the bytes
\* that remained (headers), the node dump_list stopped at (at), and the
\* nodes handed to free, 0 standing for the local variable root (freed).
StatusStart ==
    [read |-> -1, parse |-> -1, dump |-> -1, make |-> -1, fixup |-> -1, write |-> -1,
     ub |-> FALSE, outside |-> FALSE, wrapped |-> FALSE, headers |-> <<>>, at |-> 0,
     freed |-> {}]

\* What the conversion of an infinite or undefined double to int leaves in
\* the int16_t: 0 (the conversion gives INT_MIN, or 0 for a NaN) or -1 (it
\* saturates at INT_MAX).
UndefSamples == { <<0, 0>>, <<255, 255>> }

\* What a run returns after memory outside an object was touched.
UbReturns == {0, 1}

\* What fread can return: the whole file, or less when the read fails.
ReadCounts(filesize) == {filesize} \cup (IF filesize > 0 THEN {filesize - 1} ELSE {})

Init ==
    /\ Global_flag_little_endian \in {0, 1}
    /\ program \in {"tsdump", "tsgen"}
    /\ pc = IF program = "tsdump" THEN "read" ELSE "loop"
    /\ infile \in IF program = "tsdump" THEN BinaryFiles ELSE TextFiles
    /\ just_header \in IF program = "tsdump" THEN {0, 1} ELSE {0}
    /\ filedata = <<>>
    /\ list = <<>>
    /\ config = ConfigZero
    /\ fpos = PosStart
    /\ line_count = 0
    /\ outfile = <<>>
    /\ status = StatusStart
    /\ ret = 0

\* tsdump: the file is read into the buffer and its header is checked.
tsdump_read ==
    /\ program = "tsdump"
    /\ pc = "read"
    /\ \E count \in ReadCounts(Len(infile)) :
         LET err == read_binary_file(count, Len(infile), infile)
         IN  /\ filedata' = SubSeq(infile, 1, count)
             /\ status' = [status EXCEPT !.read = err]
             /\ pc' = IF err = 0 THEN "parse" ELSE "done"
    /\ UNCHANGED <<Global_flag_little_endian, program, infile, just_header, list, config,
                   fpos, line_count, outfile, ret>>

\* tsdump: parse_file.  A NULL list ends the run with err still 0.
\* p is what parse_file did.
tsdump_parsed(p) ==
    /\ filedata' = p.st.buf
    /\ status' = [status EXCEPT
           !.parse = IF p.st.ub THEN -1 ELSE IF p.null THEN 1 ELSE 0,
           !.ub = p.st.ub,
           !.outside = p.st.outside,
           !.wrapped = p.st.wrapped,
           !.headers = [i \in 1..Len(p.st.nodes) |->
                           [key |-> p.st.nodes[i].key,
                            size |-> ToNat(p.st.nodes[i].size),
                            declared |-> p.st.nodes[i].declared,
                            remaining |-> p.st.nodes[i].remaining]]]
    /\ list' = p.list
    /\ pc' = IF p.st.ub \/ p.null THEN "done" ELSE "dump"
    /\ IF p.st.ub THEN ret' \in UbReturns ELSE ret' = ret

tsdump_parse ==
    /\ program = "tsdump"
    /\ pc = "parse"
    /\ tsdump_parsed(parse_file(filedata, Len(filedata)))
    /\ UNCHANGED <<Global_flag_little_endian, program, infile, just_header, config,
                   fpos, line_count, outfile>>

\* tsdump: dump_list, whose return value is the one of the run.
\* d is what dump_list did.
tsdump_dumped(d) ==
    /\ outfile' = d.out
    /\ config' = d.config
    /\ status' = [status EXCEPT !.dump = d.err, !.at = d.at]
    /\ ret' = d.err

tsdump_dump ==
    /\ program = "tsdump"
    /\ pc = "dump"
    /\ tsdump_dumped(dump_list(list, just_header))
    /\ pc' = "done"
    /\ UNCHANGED <<Global_flag_little_endian, program, infile, just_header, filedata, list,
                   fpos, line_count>>

\* tsgen: one turn of the while loop, or its end at the end of the file.
\* t is what the turn did; undefined tells that an undefined conversion
\* decided what was stored.
tsgen_turned(t, undefined) ==
    /\ line_count' = line_count + 1
    /\ fpos' = NextPos(infile, fpos)
    /\ list' = t.list
    /\ config' = t.config
    /\ status' = [status EXCEPT
           !.make = IF t.act = "skip" THEN @ ELSE IF t.act = "make" THEN 0 ELSE 1,
           !.ub = @ \/ undefined]
    /\ pc' = IF t.act = "return" THEN "done" ELSE "loop"
    /\ ret' = IF t.act = "return" THEN 1 ELSE ret

tsgen_loop ==
    /\ program = "tsgen"
    /\ pc = "loop"
    /\ IF AtEof(infile, fpos)
       THEN /\ pc' = "fixup"
            /\ UNCHANGED <<list, config, fpos, line_count, status, ret>>
       ELSE \E undef \in UndefSamples :
              tsgen_turned(tsgen_line(infile, fpos, list, config, undef),
                           Cardinality({tsgen_line(infile, fpos, list, config, other) :
                                           other \in UndefSamples}) > 1)
    /\ UNCHANGED <<Global_flag_little_endian, program, infile, just_header, filedata, outfile>>

\* tsgen: fixup_sizes(&root); what it returns is not looked at.
tsgen_fixed(f) ==
    /\ list' = f.list
    /\ status' = [status EXCEPT !.fixup = f.err]

tsgen_fixup ==
    /\ program = "tsgen"
    /\ pc = "fixup"
    /\ tsgen_fixed(fixup_sizes(list))
    /\ pc' = "write"
    /\ UNCHANGED <<Global_flag_little_endian, program, infile, just_header, filedata, config,
                   fpos, line_count, outfile, ret>>

\* free_all_nodes_and_data(list): the nodes it frees, each with its data,
\* walking the list from node from on (0 is root).
free_all_nodes_and_data(nodes, from) == from..Len(nodes)

\* tsgen: ts_write(root.next), free_all_nodes_and_data(list), return err.
\* list points at the last node made; when no node was made it still points
\* at root, a local variable, which is then handed to free.
tsgen_written(w) ==
    /\ list' = w.list
    /\ outfile' = w.out
    /\ status' = [status EXCEPT !.write = w.err, !.ub = @ \/ list = <<>>,
                                !.freed = free_all_nodes_and_data(list, Len(list))]
    /\ IF list = <<>> THEN ret' \in UbReturns ELSE ret' = w.err

tsgen_write ==
    /\ program = "tsgen"
    /\ pc = "write"
    /\ tsgen_written(ts_write(list))
    /\ pc' = "done"
    /\ UNCHANGED <<Global_flag_little_endian, program, infile, just_header, filedata, config,
                   fpos, line_count>>

Next ==
    \/ tsdump_read
    \/ tsdump_parse
    \/ tsdump_dump
    \/ tsgen_loop
    \/ tsgen_fixup
    \/ tsgen_write

Spec == Init /\ [][Next]_vars

----------------------------------------------------------------------------
(* Properties.                                                             *)

Headers == status.headers

Leaf(key) == ~superblock(key)

\* The payload a block type needs at least: the size of its struct.
MinimumSize(key) ==
    IF key = KEY_sign THEN Sizeof_block_sign
    ELSE IF key = KEY_mcda THEN Sizeof_block_mcda
    ELSE IF key = KEY_cnst THEN Sizeof_block_cnst
    ELSE IF key = KEY_swep THEN Sizeof_block_swep
    ELSE IF key = KEY_fbin THEN Sizeof_block_fbin
    ELSE IF key = KEY_gtag THEN Sizeof_block_gtag
    ELSE IF key = KEY_atag THEN Sizeof_block_atag
    ELSE IF key = KEY_indx THEN Sizeof_block_indx
    ELSE IF key = KEY_scal THEN Sizeof_block_scal
    ELSE IF key = KEY_alvl THEN Sizeof_block_alvl
    ELSE 0

\* A record: the outer block first, its header-open marker next, one
\* body-open marker, and no end marker before the body-open marker.
RecordShape(nodes) ==
    /\ Len(nodes) >= 3
    /\ nodes[1].key = KEY_AQLV
    /\ nodes[2].key = KEY_HEAD
    /\ Cardinality({i \in 1..Len(nodes) : nodes[i].key = KEY_AQLV}) = 1
    /\ Cardinality({i \in 1..Len(nodes) : nodes[i].key = KEY_HEAD}) = 1
    /\ Cardinality({i \in 1..Len(nodes) : nodes[i].key = KEY_BODY}) = 1
    /\ \A i, j \in 1..Len(nodes) :
          nodes[i].key = KEY_END /\ nodes[j].key = KEY_BODY => j < i

\* Where the region that opens at node i closes: at the next node with a
\* key in stops, or after the last node.
RegionEnd(nodes, i, stops) ==
    LET later == {j \in (i + 1)..Len(nodes) : nodes[j].key \in stops}
    IN  IF later = {} THEN Len(nodes) + 1 ELSE SetMin(later)

\* What a block of a region takes in the file: its header and its payload;
\* a nested marker stands with its header, the blocks it brackets follow it.
Span(node) == (IF node.key \in {KEY_HEAD, KEY_BODY} THEN 0 ELSE Size(node)) + SizeofHeader

RECURSIVE SpanSum(_, _, _)
SpanSum(nodes, from, to) ==
    IF from > to THEN 0 ELSE Span(nodes[from]) + SpanSum(nodes, from + 1, to)

\* Every container's length is the sum over the blocks of its region.
ContainerInvariant(nodes) ==
    \A i \in 1..Len(nodes) :
       /\ nodes[i].key = KEY_HEAD =>
             Size(nodes[i]) = SpanSum(nodes, i + 1, RegionEnd(nodes, i, {KEY_BODY, KEY_END}) - 1)
       /\ nodes[i].key = KEY_BODY =>
             Size(nodes[i]) = SpanSum(nodes, i + 1, RegionEnd(nodes, i, {KEY_END}) - 1)
       /\ nodes[i].key = KEY_AQLV =>
             Size(nodes[i]) = SpanSum(nodes, i + 1, RegionEnd(nodes, i, {KEY_END}) - 1)

\* The same tags in the same order, the same lengths and, for the blocks
\* that are no containers, the same payload.
SameBlocks(a, b) ==
    /\ Len(a) = Len(b)
    /\ \A i \in 1..Len(a) :
          /\ a[i].key = b[i].key
          /\ a[i].size = b[i].size
          /\ Leaf(a[i].key) => a[i].data = b[i].data

\* w is what ts_write did with a list: it succeeded, and decoding what it
\* wrote gives that list back.
DecodedBack(p, nodes) == ~p.st.ub /\ ~p.null /\ SameBlocks(p.list, nodes)

WrittenBack(w, nodes) ==
    /\ w.err = 0
    /\ DecodedBack(parse_file(w.out, Len(w.out)), nodes)

\* C1: for every block sequence the decoder or the builder produces,
\* serializing it and decoding the bytes gives the same succession of tags,
\* lengths and payload bytes.
C1_BinaryRoundTrip ==
    (\/ program = "tsdump" /\ pc = "dump"
     \/ program = "tsgen" /\ pc = "write" /\ status.fixup = 0)
    => WrittenBack(ts_write(list), list)

\* b is what tsgen built from a text: it built and reconciled without an
\* error, to the reconciled form of nodes.
BuiltBack(b, nodes) ==
    /\ b.err = 0
    /\ fixup_sizes(b.list).err = 0
    /\ SameBlocks(fixup_sizes(b.list).list, nodes)

\* Every block that is no container has the length of its type, a sample
\* block that of a whole number of samples.
WholeBlocks(nodes) ==
    \A i \in 1..Len(nodes) :
       Leaf(nodes[i].key) =>
          /\ Size(nodes[i]) % MinimumSize(nodes[i].key) = 0
          /\ nodes[i].key # KEY_alvl => Size(nodes[i]) = MinimumSize(nodes[i].key)

\* C2: for a decoded sequence that renders in full mode without an error
\* (here: one of whole blocks, with both scale factors set, that reconciles
\* without an error), building from the rendered text and reconciling
\* gives the reconciled sequence back: tags, lengths and fields.
C2_TextRoundTrip ==
    (/\ program = "tsdump" /\ pc = "done"
     /\ status.dump = 0 /\ just_header = 0
     /\ WholeBlocks(list)
     /\ config.scalar_one # Zeros(8) /\ config.scalar_two # Zeros(8)
     /\ fixup_sizes(list).err = 0)
    => \A undef \in UndefSamples :
          BuiltBack(tsgen_build(outfile, undef), fixup_sizes(list).list)

\* C3 as stated: after a reconciliation that succeeded, every container's
\* length is the sum of (payload length + 8) over the blocks of its
\* bracket region, whatever the sequence.
C3_AnySequenceInvariant ==
    (program = "tsgen" /\ pc = "write" /\ status.fixup = 0)
    => ContainerInvariant(list)

\* C3: after a reconciliation that succeeded on a sequence with the shape
\* of a record, every container's length is the sum of (payload length + 8)
\* over the blocks of its bracket region.
C3_RecordInvariant ==
    (program = "tsgen" /\ pc = "write" /\ status.fixup = 0 /\ RecordShape(list))
    => ContainerInvariant(list)

C3_Witness ==
    /\ program = "tsgen" /\ pc = "write" /\ status.fixup = 0 /\ RecordShape(list)
    /\ \E i, j \in 1..Len(list) :
          /\ list[i].key = KEY_HEAD /\ Size(list[i]) > SizeofHeader
          /\ list[j].key = KEY_BODY /\ Size(list[j]) > SizeofHeader
          /\ Size(list[1]) = Size(list[i]) + Size(list[j]) + 2 * SizeofHeader

\* C4: decoding never touches a byte outside the input buffer, and no
\* length computation wraps around.
C4_ReadSafety ==
    program = "tsdump" => ~status.outside /\ ~status.wrapped

\* A header that declares more than is left of its range.
Clamped(h) == h.remaining >= 0 /\ h.declared > h.remaining

\* C5 as stated: whenever a header declares more than is left, the block
\* gets what is left and decoding completes without an error.
C5_ClampCompletes ==
    (/\ program = "tsdump" /\ status.parse # -1
     /\ \E i \in DOMAIN Headers : Clamped(Headers[i]))
    => status.parse = 0

\* C5: whenever a header declares more than is left, the block gets what
\* is left; decoding then completes unless a block is of an unknown type
\* or shorter than its type needs, and the list it returns holds the
\* clamped lengths.
C5_ClampRecorded ==
    program = "tsdump" =>
       /\ \A i \in DOMAIN Headers :
             Clamped(Headers[i]) => Headers[i].size = Headers[i].remaining
       /\ status.parse = 0 =>
             /\ Len(list) = Len(Headers)
             /\ \A i \in DOMAIN Headers :
                   /\ Size(list[i]) = Headers[i].size
                   /\ Leaf(list[i].key) => Len(list[i].data) = Headers[i].size
       /\ status.parse = 1 =>
             /\ Headers # <<>>
             /\ Leaf(Headers[Len(Headers)].key)
             /\ \/ find_block_functions(Headers[Len(Headers)].key) = <<>>
                \/ Headers[Len(Headers)].size < MinimumSize(Headers[Len(Headers)].key)

C5_Witness ==
    /\ program = "tsdump" /\ status.parse = 0
    /\ \E i, j \in DOMAIN Headers :
          /\ Clamped(Headers[i]) /\ ~Leaf(Headers[i].key)
          /\ Clamped(Headers[j]) /\ Leaf(Headers[j].key) /\ Headers[j].remaining > 0
          /\ Size(list[j]) = Headers[j].remaining

HasKey(nodes, key) == \E i \in 1..Len(nodes) : nodes[i].key = key

\* C6: reconciling a sequence that lacks the outer block, the header-open
\* marker or the body-open marker fails.
C6_MissingContainerFails ==
    (/\ program = "tsgen" /\ pc = "write"
     /\ ~(HasKey(list, KEY_AQLV) /\ HasKey(list, KEY_HEAD) /\ HasKey(list, KEY_BODY)))
    => status.fixup = 1

C6_Witness ==
    /\ program = "tsgen" /\ pc = "write" /\ status.fixup = 1
    /\ ~HasKey(list, KEY_AQLV) /\ HasKey(list, KEY_HEAD) /\ HasKey(list, KEY_BODY)
    /\ calculate_head_size(list) > 0 /\ calculate_body_size(list) > 0

\* C7: when reconciling fails, building fails: nothing is written and the
\* exit status is not zero.
C7_ReconcileFailureStops ==
    (program = "tsgen" /\ pc = "done" /\ status.fixup = 1 /\ ~status.ub)
    => outfile = <<>> /\ ret # 0

\* C8: a run of tsdump in which a stage reported an error ends with a
\* non-zero exit status.
C8_ErrorExitStatus ==
    (/\ program = "tsdump" /\ pc = "done" /\ ~status.ub
     /\ (status.read = 1 \/ status.parse = 1 \/ status.dump = 1))
    => ret # 0

\* C9: the builder makes a sample block only after a scale block: with no
\* scalars set the build fails.
C9_SamplesNeedScale ==
    (program = "tsgen" /\ pc \in {"loop", "fixup", "write"})
    => \A i \in 1..Len(list) :
          list[i].key = KEY_alvl => \E j \in 1..(i - 1) : list[j].key = KEY_scal

\* The encoding selector in effect at node i: the one of the last format
\* block before it, zero when there is none.
SelectorAt(nodes, i) ==
    LET before == {j \in 1..(i - 1) : nodes[j].key = KEY_fbin}
    IN  IF before = {} THEN Zeros(4)
        ELSE Field(nodes[CHOOSE j \in before : \A k \in before : k <= j].data, 4, 4)

\* C10: rendering a sample block while the selector is none of the four
\* known encodings fails, at that block, with what was rendered before it.
C10_UnknownSelectorFails ==
    program = "tsdump" /\ pc = "done" /\ status.dump # -1 =>
       \A i \in 1..Len(list) :
          (/\ list[i].key = KEY_alvl /\ Size(list[i]) >= Sizeof_block_alvl
           /\ just_header = 0
           /\ status.at >= i
           /\ SelectorAt(list, i) \notin
                 {BINTYPE_FLT4, BINTYPE_FIX2, BINTYPE_FIX3, BINTYPE_FIX4})
          => /\ ret = 1 /\ status.dump = 1 /\ status.at = i
             /\ outfile = dump_list(SubSeq(list, 1, i - 1), just_header).out

C10_Witness ==
    /\ program = "tsdump" /\ pc = "done" /\ status.dump = 1 /\ just_header = 0
    /\ status.at \in 1..Len(list)
    /\ list[status.at].key = KEY_alvl
    /\ Size(list[status.at]) >= Sizeof_block_alvl
    /\ SelectorAt(list, status.at) = <<97, 98, 99, 100>>
    /\ outfile # <<>>


\* The lines of the stanza whose key line is line l of the text: those
\* after it, up to the first empty line or the end of the text.
StanzaLines(text, l) ==
    LET empty == {k \in (l + 1)..Len(text) : text[k] = <<>>}
    IN  (IF empty = {} THEN Len(text) + 1 ELSE SetMin(empty)) - (l + 1)

\* The loop of tsgen stands at the key line of a stanza of the block type.
AtStanza(key) ==
    /\ program = "tsgen" /\ pc = "loop"
    /\ ~AtEof(infile, fpos) /\ fpos.c = 1
    /\ infile[fpos.l] = key

\* m is what make_node_alvl did with a stanza of n lines: with n odd it
\* failed with no payload allocated; when it succeeded the payload has 4
\* bytes for each pair of lines.
OddCountRefused(m, n) ==
    /\ n % 2 = 1 => m.err = 1 /\ m.node.data = <<>> /\ Size(m.node) = 0
    /\ m.err = 0 => Size(m.node) = Sizeof_block_alvl * (n \div 2)
                    /\ Len(m.node.data) = Sizeof_block_alvl * (n \div 2)

\* C11: building a sample stanza with an odd number of lines fails before
\* any payload is allocated, and a sample block that is built has 4 bytes
\* for each pair of lines.
C11_OddSampleCount ==
    AtStanza(KEY_alvl) =>
       \A undef \in UndefSamples :
          OddCountRefused(make_node_alvl(config, infile, NextPos(infile, fpos), undef),
                          StanzaLines(infile, fpos.l))


\* The key patterns the stanza of a block type is expected to hold.
ExpectedKeys(key) ==
    IF key = KEY_sign THEN << <<118, 101, 114, 115, 105, 111, 110, 58>>, <<102, 105, 108, 101, 116, 121, 112, 101, 58>>, <<115, 105, 116, 101, 99, 111, 100, 101, 58>>, <<117, 115, 101, 114, 102, 108, 97, 103, 115, 58>>,
                              <<100, 101, 115, 99, 114, 105, 112, 116, 105, 111, 110, 58>>, <<111, 119, 110, 101, 114, 110, 97, 109, 101, 58>>, <<99, 111, 109, 109, 101, 110, 116, 58>> >>
    ELSE IF key = KEY_mcda THEN << <<116, 105, 109, 101, 115, 116, 97, 109, 112, 58>> >>
    ELSE IF key = KEY_cnst THEN << <<110, 99, 104, 97, 110, 110, 101, 108, 115, 58>>, <<110, 115, 119, 101, 101, 112, 115, 58>>, <<110, 115, 97, 109, 112, 108, 101, 115, 58>>, <<105, 113, 105, 110, 100, 105, 99, 97, 116, 111, 114, 58>> >>
    ELSE IF key = KEY_swep THEN << <<115, 97, 109, 112, 108, 101, 115, 112, 101, 114, 115, 119, 101, 101, 112, 58>>, <<115, 119, 101, 101, 112, 115, 116, 97, 114, 116, 58>>, <<115, 119, 101, 101, 112, 98, 97, 110, 100, 119, 105, 100, 116, 104, 58>>,
                                   <<115, 119, 101, 101, 112, 114, 97, 116, 101, 58>>, <<114, 97, 110, 103, 101, 111, 102, 102, 115, 101, 116, 58>> >>
    ELSE IF key = KEY_fbin THEN << <<102, 111, 114, 109, 97, 116, 58>>, <<116, 121, 112, 101, 58>> >>
    ELSE IF key = KEY_gtag THEN << <<103, 116, 97, 103, 58>> >>
    ELSE IF key = KEY_atag THEN << <<97, 116, 97, 103, 58>> >>
    ELSE IF key = KEY_indx THEN << <<105, 110, 100, 101, 120, 58>> >>
    ELSE IF key = KEY_scal THEN << <<115, 99, 97, 108, 97, 114, 95, 111, 110, 101, 58>>, <<115, 99, 97, 108, 97, 114, 95, 116, 119, 111, 58>> >>
    ELSE <<>>

StartsWith(line, literal) ==
    Len(line) >= Len(literal) /\ SubSeq(line, 1, Len(literal)) = literal

\* The stanza whose key line is line l holds a line with the key pattern.
KeyLinePresent(text, l, literal) ==
    \E k \in (l + 1)..(l + StanzaLines(text, l)) : StartsWith(text[k], literal)

KeyLineAbsent(text, l, key) ==
    \E f \in 1..Len(ExpectedKeys(key)) : ~KeyLinePresent(text, l, ExpectedKeys(key)[f])

\* C12: building a stanza that lacks one of the key lines its block type
\* expects fails, whether the stanza ends at a blank line or at the end of
\* the text and whatever its other lines are.
C12_AbsentKeyFails ==
    \A key \in {KEY_sign, KEY_mcda, KEY_cnst, KEY_swep, KEY_fbin, KEY_gtag, KEY_atag,
                KEY_indx, KEY_scal} :
       (AtStanza(key) /\ KeyLineAbsent(infile, fpos.l, key))
       => \A undef \in UndefSamples :
             make_node(key, config, infile, NextPos(infile, fpos), undef).err = 1


\* Tags that are none of the 14 known ones.
OtherTags == { Zeros(4), <<122, 122, 122, 122>>, <<106, 117, 110, 107>>, <<97, 113, 118, 108>> }

\* Decoding stopped with an error at every header whose tag is not known.
UnknownTagEndsDecode ==
    program = "tsdump" =>
       \A i \in DOMAIN Headers :
          find_block_functions(Headers[i].key) = <<>>
          => status.parse = 1 /\ i = Len(Headers) /\ list = <<>> /\ pc = "done"

\* The loop of tsgen is about to look up the tag of a line it does not skip
\* and the tag is not known.
DispatchesUnknownTag ==
    /\ program = "tsgen" /\ pc = "loop" /\ ~AtEof(infile, fpos)
    /\ Len(Fgets(infile, fpos)) > 1
    /\ \A k \in 1..Len(Fgets(infile, fpos)) : Fgets(infile, fpos)[k] # 58
    /\ find_block_functions(LineKey(Fgets(infile, fpos))) = <<>>

UnknownTagEndsBuild ==
    DispatchesUnknownTag =>
       /\ pc' = "done" /\ ret' = 1 /\ status'.make = 1
       /\ list' = list /\ outfile' = outfile

\* w is what ts_write did with a list whose node i has a tag that is not
\* known: it failed, having written the nodes before it.
RefusedAt(w, nodes, i) ==
    w.err = 1 /\ w.out = ts_write(SubSeq(nodes, 1, i - 1)).out

UnknownTagEndsWrite ==
    (program = "tsgen" /\ pc = "write") =>
       \A i \in 1..Len(list) : \A tag \in OtherTags :
          RefusedAt(ts_write([list EXCEPT ![i].key = tag]), list, i)

IsPrefix(s, t) == Len(s) <= Len(t) /\ SubSeq(t, 1, Len(s)) = s

\* The position of the first body-open marker of nodes, 0 when it has none.
FirstBody(nodes) ==
    IF HasKey(nodes, KEY_BODY)
    THEN CHOOSE i \in 1..Len(nodes) :
            nodes[i].key = KEY_BODY /\ \A j \in 1..(i - 1) : nodes[j].key # KEY_BODY
    ELSE 0

\* What the two modes of dump_list make of nodes: the header-only text is
\* the start of the full text; with a body-open marker it is the text of the
\* blocks before the first one, without one the two passes are the same.
HeaderOnlyCut(nodes) ==
    LET h == dump_list(nodes, 1)
        f == dump_list(nodes, 0)
        b == FirstBody(nodes)
    IN  /\ IsPrefix(h.out, f.out)
        /\ b > 0 => h.out = dump_list(SubSeq(nodes, 1, b - 1), 0).out
        /\ (b > 0 /\ h.at = b) => h.err = 0
        /\ b = 0 => h = f

\* C14: the text of a header-only render is the text of the full render of
\* the same list cut at the first body-open marker: a prefix of it, with no
\* line of the marker or of a block after it; a list without a body-open
\* marker renders the same in both modes.
C14_HeaderOnlyPrefix ==
    /\ (program = "tsdump" /\ pc = "dump") => HeaderOnlyCut(list)
    /\ (program = "tsdump" /\ pc = "done" /\ status.dump >= 0 /\ just_header = 1)
       => /\ IsPrefix(outfile, dump_list(list, 0).out)
          /\ FirstBody(list) = 0 => outfile = dump_list(list, 0).out

C14_Witness ==
    /\ program = "tsdump" /\ pc = "done" /\ status.dump = 0 /\ just_header = 1
    /\ FirstBody(list) > 1 /\ FirstBody(list) < Len(list)
    /\ outfile # <<>>
    /\ outfile # dump_list(list, 0).out
    /\ dump_list(list, 0).err = 0


\* The full scale values of the three fixed-point sample types.
FixedScales == { factor(BINTYPE_FIX2), factor(BINTYPE_FIX3), factor(BINTYPE_FIX4) }

\* The position n calls of fgets after pos.
RECURSIVE PosAfter(_, _, _)
PosAfter(text, pos, n) == IF n = 0 THEN pos ELSE PosAfter(text, NextPos(text, pos), n - 1)

Abs(x) == IF x < 0 THEN -x ELSE x

\* The value v is within full scale of the scale factor: |v| <= |scalar|.
InScale(v, scalar) == scalar.n # 0 /\ v.n * scalar.d <= scalar.n * v.d

\* round(v / scalar * f), halves away from zero.
Rounded(v, scalar, f) ==
    LET n == v.n * scalar.d * f
        d == v.d * scalar.n
    IN  v.s * scalar.s * ((n \div d) + (IF 2 * (n % d) >= d THEN 1 ELSE 0))

\* |r - v| <= |scalar| / f
WithinStep(r, v, scalar, f) ==
    Abs(r.s * r.n * v.d - v.s * v.n * r.d) * scalar.d * f <= scalar.n * r.d * v.d

\* stored is the integer the build kept for the value v: it is the rounded
\* quotient, and what the renderer makes of it is v within one step.
SampleKept(v, scalar, f, stored) ==
    /\ stored = Rounded(v, scalar, f)
    /\ WithinStep(ScaleOut(stored, f, scalar), v, scalar, f)

\* The node built from the sample stanza at pos under cfg keeps every
\* value of the stanza that is within full scale.
SamplesKept(m, cfg, text, pos) ==
    \A k \in 0..((Size(m.node) \div Sizeof_block_alvl) - 1) :
       LET i == sscanf(Fgets(text, PosAfter(text, pos, 2 * k)), <<105, 58>>, "lf").val
           q == sscanf(Fgets(text, PosAfter(text, pos, 2 * k + 1)), <<113, 58>>, "lf").val
           f == factor(cfg.bin_type)
       IN  /\ InScale(i, DoubleValue(cfg.scalar_one))
              => SampleKept(i, DoubleValue(cfg.scalar_one), f,
                            Int16(Field(m.node.data, Sizeof_block_alvl * k, 2)))
           /\ InScale(q, DoubleValue(cfg.scalar_two))
              => SampleKept(q, DoubleValue(cfg.scalar_two), f,
                            Int16(Field(m.node.data, Sizeof_block_alvl * k + 2, 2)))

\* C15: for each of the three fixed-point types and every value of a sample
\* stanza within full scale of a scale factor that is not zero, the integer
\* the build stores is round(v / scale * fullscale), not cut by the width of
\* the field, and the renderer turns it into v within one quantization step.
C15_ScalingRoundTrip ==
    (AtStanza(KEY_alvl) /\ factor(config.bin_type) \in FixedScales)
    => \A undef \in UndefSamples :
          LET m == make_node_alvl(config, infile, NextPos(infile, fpos), undef)
          IN  m.err = 0 => SamplesKept(m, config, infile, NextPos(infile, fpos))


\* The blocks scanned while the header flag is set: after a header-open
\* marker, with no body-open or end marker since, the block itself included.
InHeader(nodes) ==
    { i \in 1..Len(nodes) :
        \E j \in 1..(i - 1) :
           /\ nodes[j].key = KEY_HEAD
           /\ \A k \in (j + 1)..i : nodes[k].key \notin {KEY_BODY, KEY_END} }

\* The blocks scanned while the body flag is set.
InBody(nodes) ==
    { i \in 1..Len(nodes) :
        \E j \in 1..(i - 1) :
           /\ nodes[j].key = KEY_BODY
           /\ \A k \in (j + 1)..i : nodes[k].key # KEY_END }

\* The sum of (length + 8) over the blocks of nodes at the positions in S.
RECURSIVE SizeSum(_, _)
SizeSum(nodes, S) ==
    IF S = {} THEN 0
    ELSE LET i == SetMin(S)
         IN  Size(nodes[i]) + SizeofHeader + SizeSum(nodes, S \ {i})

\* The first block of nodes with the key.
FirstOf(nodes, key) ==
    nodes[CHOOSE i \in 1..Len(nodes) :
             nodes[i].key = key /\ \A j \in 1..(i - 1) : nodes[j].key # key]

\* A step of fixup_sizes that succeeds leaves the three lengths as stated.
ReconcileStep ==
    (program = "tsgen" /\ pc = "fixup" /\ status'.fixup = 0)
    => LET H == SizeSum(list, InHeader(list))
           B == SizeSum(list, InBody(list))
       IN  /\ HasKey(list', KEY_HEAD) /\ HasKey(list', KEY_BODY) /\ HasKey(list', KEY_AQLV)
           /\ Size(FirstOf(list', KEY_HEAD)) = H
           /\ Size(FirstOf(list', KEY_BODY)) = B
           /\ Size(FirstOf(list', KEY_AQLV)) = H + SizeofHeader + B + SizeofHeader

\* C16: when reconcile succeeds the header-open block has the length H, the
\* body-open block the length B and the outer block H + 8 + B + 8, with H
\* the sum of (length + 8) over the blocks scanned while the header flag is
\* set and B the same while the body flag is set; the markers that set or
\* clear a flag are not counted.
C16_ReconcileValues == [][ReconcileStep]_vars

C16_Witness ==
    /\ program = "tsgen" /\ pc = "write" /\ status.fixup = 0
    /\ Size(FirstOf(list, KEY_HEAD)) > SizeofHeader
    /\ Size(FirstOf(list, KEY_BODY)) > SizeofHeader
    /\ Size(FirstOf(list, KEY_BODY)) # Size(FirstOf(list, KEY_HEAD))


\* The last block of nodes with the key, 0 when there is none.
LastOf(nodes, key) ==
    IF HasKey(nodes, key)
    THEN CHOOSE i \in 1..Len(nodes) :
            nodes[i].key = key /\ \A j \in (i + 1)..Len(nodes) : nodes[j].key # key
    ELSE 0

\* The context after the blocks of nodes: all zero, with the selector of
\* the last format block and the scale factors of the last scaling block.
ContextOf(nodes) ==
    LET f == LastOf(nodes, KEY_fbin)
        s == LastOf(nodes, KEY_scal)
    IN  [bin_type   |-> IF f = 0 THEN Zeros(4) ELSE Field(nodes[f].data, 4, 4),
         scalar_one |-> IF s = 0 THEN Zeros(8) ELSE Field(nodes[s].data, 0, 8),
         scalar_two |-> IF s = 0 THEN Zeros(8) ELSE Field(nodes[s].data, 8, 8)]

\* Render: every sample block that dump_list reaches is printed with the
\* context of the blocks before it, and what is printed up to a block stays
\* as it is when the blocks after it are printed.
RenderContext(nodes) ==
    \A i \in 1..Len(nodes) :
       LET before == dump_list(SubSeq(nodes, 1, i - 1), 0)
           upto == dump_list(SubSeq(nodes, 1, i), 0)
       IN  before.err = 0
           => /\ before.config = ContextOf(SubSeq(nodes, 1, i - 1))
              /\ nodes[i].key = KEY_alvl
                 => upto.out = before.out
                                 \o dump_block_alvl(nodes[i], ContextOf(SubSeq(nodes, 1, i - 1))).out
              /\ IsPrefix(upto.out, dump_list(nodes, 0).out)

\* Build: while the loop of tsgen runs the context is the one of the blocks
\* built so far.
BuildContext ==
    (program = "tsgen" /\ pc = "loop") => config = ContextOf(list)

\* Build: a step changes the context only by building a format or a
\* scaling block, and a sample block is built with the context of the
\* blocks before it.
BuildContextStep ==
    /\ (program = "tsgen" /\ config' # config)
       => (AtStanza(KEY_fbin) \/ AtStanza(KEY_scal))
          /\ Len(list') = Len(list) + 1
          /\ list'[Len(list')].key = infile[fpos.l]
    /\ (AtStanza(KEY_alvl) /\ status'.make = 0)
       => \E undef \in UndefSamples :
             list' = Append(list, make_node_alvl(ContextOf(list), infile,
                                                 NextPos(infile, fpos), undef).node)

\* C17: the context starts all zero and is changed only by format blocks
\* (the selector) and scaling blocks (the two scale factors); a sample block
\* is rendered, and built, with the selector of the last format block and
\* the scale factors of the last scaling block before it, never with those
\* of a block after it.
C17_ContextThreading ==
    /\ []((program = "tsdump" /\ pc = "dump") => RenderContext(list))
    /\ []BuildContext
    /\ [][BuildContextStep]_vars

\* A list with a sample block before and one after a change of context has
\* been rendered.
C17_Witness ==
    /\ program = "tsdump" /\ pc = "done" /\ status.dump = 0 /\ just_header = 0
    /\ \E i, j \in 1..Len(list) :
          /\ i < j /\ list[i].key = KEY_alvl /\ list[j].key = KEY_alvl
          /\ ContextOf(SubSeq(list, 1, i - 1)).bin_type # Zeros(4)
          /\ ContextOf(SubSeq(list, 1, i - 1)) # ContextOf(SubSeq(list, 1, j - 1))
          /\ ContextOf(SubSeq(list, 1, j - 1)).scalar_one
                # ContextOf(SubSeq(list, 1, j - 1)).scalar_two


\* The widths of the scalar fields a block of the type and size starts
\* with: those of its struct, or the two values of every whole sample.
ScalarWidths(key, size) ==
    IF key = KEY_sign THEN <<4, 4, 4, 4>>
    ELSE IF key = KEY_cnst THEN <<4, 4, 4, 4>>
    ELSE IF key = KEY_swep THEN <<4, 8, 8, 8, 4>>
    ELSE IF key = KEY_fbin THEN <<4, 4>>
    ELSE IF key = KEY_scal THEN <<8, 8>>
    ELSE IF key \in {KEY_mcda, KEY_gtag, KEY_atag, KEY_indx} THEN <<4>>
    ELSE IF key = KEY_alvl THEN [k \in 1..(2 * (size \div Sizeof_block_alvl)) |-> 2]
    ELSE <<>>

\* The data block as it stands in the stream: every scalar field with its
\* most significant byte first, the other bytes as they are in memory.
RECURSIVE StreamOrder(_, _)
StreamOrder(data, widths) ==
    IF widths = <<>> THEN data
    ELSE Field(data, 0, Head(widths))
            \o StreamOrder(SubSeq(data, Head(widths) + 1, Len(data)), Tail(widths))

\* The bytes of a block of the stream: tag, length, and the payload as far
\* as n bytes.
StreamBlock(key, size, data, n) ==
    key \o size \o SubSeq(StreamOrder(data, ScalarWidths(key, ToNat(size))), 1, n)

\* The bytes each gen function writes of the payload of a node.
WrittenLen(node) ==
    IF node.key = KEY_alvl THEN Sizeof_block_alvl * (Size(node) \div Sizeof_block_alvl)
    ELSE IF superblock(node.key) \/ node.key = KEY_END THEN 0
    ELSE IF node.key = KEY_sign THEN Sizeof_block_sign
    ELSE IF node.key = KEY_mcda THEN Sizeof_block_mcda
    ELSE IF node.key = KEY_cnst THEN Sizeof_block_cnst
    ELSE IF node.key = KEY_swep THEN Sizeof_block_swep
    ELSE IF node.key = KEY_fbin THEN Sizeof_block_fbin
    ELSE IF node.key = KEY_scal THEN Sizeof_block_scal
    ELSE Sizeof_block_gtag

\* The stream of the nodes from i on.
RECURSIVE StreamOf(_, _)
StreamOf(nodes, i) ==
    IF i > Len(nodes) THEN <<>>
    ELSE StreamBlock(nodes[i].key, nodes[i].size, nodes[i].data, WrittenLen(nodes[i]))
            \o StreamOf(nodes, i + 1)

\* The file the nodes were decoded from, from node i on: the headers as
\* they were read and the payload of every block that holds no blocks.
RECURSIVE DecodedFrom(_, _, _)
DecodedFrom(nodes, heads, i) ==
    IF i > Len(nodes) THEN <<>>
    ELSE (IF superblock(nodes[i].key)
          THEN heads[i].key \o FromNat(heads[i].declared)
          ELSE StreamBlock(heads[i].key, FromNat(heads[i].declared), nodes[i].data,
                           Len(nodes[i].data)))
            \o DecodedFrom(nodes, heads, i + 1)

\* Decode: the scalar fields of the decoded blocks, put back in stream
\* order, are the bytes of the file.
DecodeSwapsOnce ==
    (program = "tsdump" /\ pc = "dump" /\ \A i \in DOMAIN Headers : ~Clamped(Headers[i]))
    => DecodedFrom(list, Headers, 1) = infile

\* Serialize: what ts_write writes of a built list is the stream of its
\* blocks, every scalar field in stream order.
SerializeSwapsOnce ==
    (program = "tsgen" /\ pc = "write")
    => ts_write(list).out = StreamOf(list, 1)

\* C18: on either host decode swaps every scalar field (tag, length and the
\* scalar fields of the payload) once after reading and serialize swaps
\* every such field once before writing, so that every scalar field in the
\* bytes written for a built list is in big-endian stream order.
C18_ByteOrderOnce == DecodeSwapsOnce /\ SerializeSwapsOnce


\* Between two lists of the same blocks only lengths of container blocks
\* differ.
OnlyContainerSizes(old, new) ==
    /\ Len(new) = Len(old)
    /\ \A i \in 1..Len(old) :
          /\ new[i].key = old[i].key
          /\ new[i].data = old[i].data
          /\ new[i].size # old[i].size => old[i].key \in {KEY_AQLV, KEY_HEAD, KEY_BODY}

\* Once the list is built a step changes nothing but the lengths of the
\* container blocks; serializing and rendering change nothing at all.
BuiltListKept ==
    /\ (program = "tsgen" /\ pc = "fixup") => OnlyContainerSizes(list, list')
    /\ (program = "tsgen" /\ pc = "write") => list' = list
    /\ (program = "tsdump" /\ pc = "dump") => list' = list

\* Serializing the list a second time gives the same bytes.
WrittenTwice ==
    (program = "tsgen" /\ pc = "write")
    => /\ ts_write(ts_write(list).list).err = ts_write(list).err
       /\ ts_write(ts_write(list).list).out = ts_write(list).out

\* C19: after the list is built the only fields of a block that change are
\* the lengths of the three container blocks set by reconcile; serializing
\* (and rendering) alters no tag, length or payload, so that serializing
\* the same list twice gives the same bytes.
C19_SequenceUnchanged == [][BuiltListKept]_vars /\ []WrittenTwice


\* The literal text of the key line of the timestamp.
TimestampKey == <<116, 105, 109, 101, 115, 116, 97, 109, 112, 58>>

\* Build: the field of the block built from a stanza that begins with a
\* timestamp line holds the number of the line plus the epoch offset.
BuildAddsEpoch ==
    (AtStanza(KEY_mcda) /\ status'.make = 0
        /\ ~AtEof(infile, NextPos(infile, fpos))
        /\ sscanf(Fgets(infile, NextPos(infile, fpos)), TimestampKey, "u").count = 1)
    => Field(list'[Len(list')].data, 0, 4)
          = BytesAdd(sscanf(Fgets(infile, NextPos(infile, fpos)), TimestampKey, "u").val,
                     EpochOffset)

\* Render and build again, for the block node with the field stored: with
\* stored zero no timestamp line is printed; otherwise the number printed
\* is stored minus the epoch offset in 32 bits, and building the stanza
\* that was printed stores the same value again.
EpochBack(node, stored) ==
    LET out == dump_block_mcda(node, ConfigZero).out
    IN  IF IsZero(stored) THEN out = << strkey(KEY_mcda), <<>> >>
        ELSE /\ Len(out) = 3
             /\ sscanf(out[2], TimestampKey, "u").count = 1
             /\ sscanf(out[2], TimestampKey, "u").val = BytesSub(stored, EpochOffset)
             /\ \A undef \in UndefSamples :
                   LET b == tsgen_build(out, undef)
                   IN  /\ b.err = 0
                       /\ Len(b.list) = 1
                       /\ b.list[1].key = KEY_mcda
                       /\ Field(b.list[1].data, 0, 4) = stored

RenderSubtractsEpoch ==
    (program = "tsdump" /\ pc = "dump")
    => \A i \in 1..Len(list) :
          (list[i].key = KEY_mcda /\ Size(list[i]) >= Sizeof_block_mcda)
          => EpochBack(list[i], Field(list[i].data, 0, 4))

\* C20: build stores the number of the text plus 2082844800 in the 32 bit
\* field; render prints the stored value minus 2082844800 when it is not
\* zero, so that building what was rendered stores the value again, and
\* prints no timestamp when it is zero.
C20_EpochConversion == []RenderSubtractsEpoch /\ [][BuildAddsEpoch]_vars


\* The lines a dump function printed for a block with the key have the
\* shape of a stanza: the line of the key, lines that are not blank and
\* hold a ':', one blank line.
StanzaShape(out, key) ==
    /\ Len(out) >= 2
    /\ out[1] = strkey(key)
    /\ out[Len(out)] = <<>>
    /\ \A k \in 2..(Len(out) - 1) :
          out[k] # <<>> /\ \E c \in 1..Len(out[k]) : out[k][c] = 58

\* C21: for every block of each of the 14 tags render prints the line of
\* the tag, the key:value lines of the type and exactly one blank line, so
\* that every stanza of the text ends with a blank line.
C21_StanzaShape ==
    (program = "tsdump" /\ pc = "dump")
    => \A i \in 1..Len(list) :
          LET before == dump_list(SubSeq(list, 1, i - 1), 0)
              d == dump_block(list[i], before.config)
          IN  (before.err = 0 /\ find_block_functions(list[i].key) # <<>> /\ d.err = 0)
              => StanzaShape(d.out, list[i].key)


\* The tags of the blocks that hold blocks.
ContainerTags == {KEY_AQLV, KEY_HEAD, KEY_BODY, KEY_END}

\* Where the header of node i of a flattened list lies in the buffer when
\* the list is in pre-order: the header of a container is followed by the
\* first header of its range, the header of another block by its payload.
RECURSIVE HeaderOffset(_, _)
HeaderOffset(nodes, i) ==
    IF i = 1 THEN 0
    ELSE HeaderOffset(nodes, i - 1) + SizeofHeader
            + (IF nodes[i - 1].key \in ContainerTags THEN 0 ELSE Size(nodes[i - 1]))

\* The nodes whose headers lie in the payload range of node i.
InRange(nodes, i) ==
    { j \in 1..Len(nodes) :
        /\ HeaderOffset(nodes, j) >= HeaderOffset(nodes, i) + SizeofHeader
        /\ HeaderOffset(nodes, j) < HeaderOffset(nodes, i) + SizeofHeader + Size(nodes[i]) }

\* The list is the buffer's headers in the order of their offsets: node i
\* is the block of the header at its pre-order offset, the headers take up
\* the whole buffer, and the blocks of a container's range follow it
\* directly.
PreOrder(nodes, heads, buffer) ==
    /\ Len(nodes) = Len(heads)
    /\ \A i \in 1..Len(nodes) :
          LET off == HeaderOffset(nodes, i)
          IN  /\ off + SizeofHeader <= Len(buffer)
              /\ SubSeq(buffer, off + 1, off + 4) = nodes[i].key
              /\ ToNat(SubSeq(buffer, off + 5, off + 8)) = heads[i].declared
              /\ nodes[i].key \in ContainerTags
                 => \E k \in i..Len(nodes) : InRange(nodes, i) = (i + 1)..k
    /\ HeaderOffset(nodes, Len(nodes))
          + SizeofHeader
          + (IF nodes[Len(nodes)].key \in ContainerTags THEN 0 ELSE Size(nodes[Len(nodes)]))
       = Len(buffer)

\* C22: the decoded list holds one block for every header parsed, in the
\* order of the headers' offsets in the buffer: the blocks of a container's
\* payload range follow the container directly and come before the block
\* after the container, at every depth, also for a container whose range is
\* empty.
C22_FlatteningOrder ==
    (program = "tsdump" /\ pc = "dump") => PreOrder(list, Headers, infile)

C22_Witness ==
    /\ program = "tsdump" /\ pc = "dump"
    /\ \E i, j \in 1..Len(list) :
          /\ list[i].key = KEY_HEAD /\ Size(list[i]) = 0
          /\ list[j].key = KEY_BODY /\ Cardinality(InRange(list, j)) >= 2
    /\ Cardinality(InRange(list, 1)) >= 4


\* The lines of the text that are neither blank nor key:value lines.
TagLines(text) ==
    SelectSeq(text, LAMBDA l : l # <<>> /\ \A c \in 1..Len(l) : l[c] # 58)

\* The tag a line names: its first four characters.
TagOf(l) == SubSeq(l \o Zeros(4), 1, 4)

\* C23: when the builder has read the whole text, the list holds exactly
\* one block for every line that is neither blank nor a key:value line,
\* with the tags in the order of these lines: no such line was skipped or
\* taken twice, and no other line made a block.
C23_BuildDispatch ==
    (program = "tsgen" /\ pc = "fixup")
    => /\ Len(list) = Len(TagLines(infile))
       /\ \A i \in 1..Len(list) : list[i].key = TagOf(TagLines(infile)[i])


\* C24: when tsgen discards the list every block the builder made is freed,
\* each once, and nothing else is: not the local variable root the list was
\* primed with, for every text, one without a stanza included.
C24_BlockLifecycle ==
    (program = "tsgen" /\ pc = "done" /\ status.write >= 0)
    => status.freed = 1..Len(list)


\* parse_file has run on the buffer.
Parsed == program = "tsdump" /\ pc \in {"dump", "done"} /\ status.read = 0

\* C25: decoding ends on every buffer: every turn of the loop takes the 8
\* bytes of a header off a counter that does not go below zero, the range
\* of a container is shorter than the range that holds the container, and
\* the number of blocks decoded is at most the length of the buffer divided
\* by 8, rounded up.
C25_DecodeTerminates ==
    Parsed
    => /\ ~status.wrapped
       /\ \A i \in DOMAIN Headers :
             /\ Headers[i].remaining >= 0
             /\ Headers[i].size <= Headers[i].remaining
       /\ Len(Headers) * SizeofHeader <= Len(filedata) + (SizeofHeader - 1)


\* C26: reconcile is all or nothing: a step of fixup_sizes that returns
\* failure leaves the size of every block as it was.
C26_ReconcileAllOrNothing ==
    [][(program = "tsgen" /\ pc = "fixup" /\ status'.fixup = 1)
       => /\ Len(list') = Len(list)
          /\ \A i \in DOMAIN list : list'[i].size = list[i].size]_vars

\* fixup_sizes has failed in set_block_size, past the two tests for a
\* region of size 0: the list has a HEAD and a BODY region and no AQLV.
C26_Witness ==
    /\ program = "tsgen"
    /\ pc = "write"
    /\ status.fixup = 1
    /\ calculate_head_size(list) # 0
    /\ calculate_body_size(list) # 0
    /\ ~HasKey(list, KEY_AQLV)


\* The list has a block of each of the three container tags that
\* fixup_sizes sets.
ThreeContainers(nodes) ==
    HasKey(nodes, KEY_AQLV) /\ HasKey(nodes, KEY_HEAD) /\ HasKey(nodes, KEY_BODY)

\* C27: fixup_sizes succeeds on every list with an outer, a header-open and
\* a body-open block, a region without blocks included, and sets the three
\* lengths to the totals.
C27_ReconcileSucceeds ==
    [][(program = "tsgen" /\ pc = "fixup" /\ ThreeContainers(list))
       => /\ status'.fixup = 0
          /\ Size(FirstOf(list', KEY_HEAD)) = SizeSum(list, InHeader(list))
          /\ Size(FirstOf(list', KEY_BODY)) = SizeSum(list, InBody(list))
          /\ Size(FirstOf(list', KEY_AQLV)) =
                SizeSum(list, InHeader(list)) + SizeofHeader
                   + SizeSum(list, InBody(list)) + SizeofHeader]_vars


\* The positions of the first block of nodes with each of the three
\* container tags that fixup_sizes sets.
FirstContainers(nodes) ==
    { i \in 1..Len(nodes) :
        /\ nodes[i].key \in {KEY_AQLV, KEY_HEAD, KEY_BODY}
        /\ \A j \in 1..(i - 1) : nodes[j].key # nodes[i].key }

\* A step of fixup_sizes that succeeds keeps the blocks, their order, tags
\* and payloads, and the length of every block but the first of each
\* container tag; these get the totals over all regions of the list.
ReconcileFrame ==
    (program = "tsgen" /\ pc = "fixup" /\ status'.fixup = 0)
    => /\ Len(list') = Len(list)
       /\ \A i \in 1..Len(list) :
             /\ list'[i].key = list[i].key
             /\ list'[i].data = list[i].data
             /\ i \notin FirstContainers(list) => list'[i].size = list[i].size
             /\ (i \in FirstContainers(list) /\ list[i].key = KEY_HEAD)
                   => Size(list'[i]) = SizeSum(list, InHeader(list))
             /\ (i \in FirstContainers(list) /\ list[i].key = KEY_BODY)
                   => Size(list'[i]) = SizeSum(list, InBody(list))

\* C28: a reconcile that succeeds changes the length of the first block of
\* each of the three container tags and nothing else: tags, payloads, the
\* order of the blocks and every other length, that of a second block with
\* a container tag included, stay; the totals run over every region.
C28_ReconcileFrame == [][ReconcileFrame]_vars

\* A reconciled list of two records: the second header-open block still has
\* length 0 and the first has the total of both header regions.
C28_Witness ==
    /\ program = "tsgen" /\ pc = "write" /\ status.fixup = 0
    /\ \E i, j \in 1..Len(list) :
          /\ i < j
          /\ list[i].key = KEY_HEAD /\ list[j].key = KEY_HEAD
          /\ Size(list[j]) = 0
          /\ Size(list[i]) = SizeSum(list, InHeader(list))
          /\ Size(list[i]) > Size(list[i + 1]) + SizeofHeader


\* The block types whose make function reads its fields with
\* read_parameter.
KeyedTags ==
    {KEY_sign, KEY_mcda, KEY_cnst, KEY_swep, KEY_fbin, KEY_gtag, KEY_atag, KEY_indx, KEY_scal}

\* The text with the n lines after line l put in the order p.
Permuted(text, l, n, p) ==
    [k \in 1..Len(text) |-> IF k \in (l + 1)..(l + n) THEN text[l + p[k - l]] ELSE text[k]]

\* m is what the make function did with a text: the step of tsgen did the
\* same.
SameMade(m) ==
    /\ (m.err = 0) = (status'.make = 0)
    /\ m.node = list'[Len(list')]
    /\ m.config = config'

\* The step of tsgen at the key line of a stanza builds what the make
\* function builds from the stanza with its n lines in any other order.
AnyOrder(key, n) ==
    \A p \in Permutations(1..n) :
       SameMade(make_node(key, config, Permuted(infile, fpos.l, n, p),
                          [l |-> fpos.l + 1, c |-> 1], <<0, 0>>))

\* C29: within one stanza the key:value lines may stand in any order, lines
\* of other keys among them: the block built is the same for every order
\* of the lines of the stanza, each key being looked for from the first
\* line of the stanza up to its blank line.
C29_KeyOrderIndependence ==
    [][\A key \in KeyedTags :
          AtStanza(key) => AnyOrder(key, StanzaLines(infile, fpos.l))]_vars


\* What gen_block wrote for a block: a header, and after it as many bytes
\* as the length in the header says, none for a block that holds blocks.
BlockWritten(node, out) ==
    /\ Len(out) >= SizeofHeader
    /\ SubSeq(out, 1, 4) = node.key
    /\ Len(out) - SizeofHeader =
          (IF node.key \in ContainerTags THEN 0 ELSE ToNat(SubSeq(out, 5, 8)))

\* One record and nothing else: outer block, header region, body region,
\* and one end marker as the last block.
OneRecord(nodes) ==
    /\ RecordShape(nodes)
    /\ nodes[Len(nodes)].key = KEY_END
    /\ \A i \in 1..(Len(nodes) - 1) : nodes[i].key # KEY_END

\* w is what ts_write did with the list: when it accepted the list every
\* block was written whole, and a reconciled record takes the length of
\* its outer block and 16 bytes more.
WellFormedStream(w, nodes) ==
    w.err = 0
    => /\ \A i \in 1..Len(nodes) : BlockWritten(nodes[i], gen_block(nodes[i]).out)
       /\ (OneRecord(nodes) /\ ContainerInvariant(nodes))
             => Len(w.out) = Size(nodes[1]) + 2 * SizeofHeader

\* C30: for every list ts_write accepts, decoded or built, each block that
\* holds no blocks is written as 8 + length bytes, the length being the one
\* in its header, and each block that holds blocks as 8 bytes; the bytes
\* written for a reconciled record of the shape outer, header region, body
\* region, end are the length of the outer block + 16.
C30_WellFormedStream ==
    (\/ program = "tsdump" /\ pc = "dump"
     \/ program = "tsgen" /\ pc = "write")
    => WellFormedStream(ts_write(list), list)

====
